---- MODULE Spec2Model ----
(***************************************************************************)
(* Model of the project-risk dashboard: the risk score aggregation and the *)
(* level bucketing of utils.py (with Python's binary64 float arithmetic),  *)
(* the vector-store accessors of data_handlers.py and the tool operations  *)
(* of tools.py.                                                            *)
(***************************************************************************)
EXTENDS Integers, Sequences, FiniteSets, TLC

VARIABLES
    risks,      \* the argument list handed to calculate_risk_score
    score,      \* the score: the last return value of calculate_risk_score
                \* (NoValue before), or the argument handed to get_risk_level
    level,      \* the last return value of get_risk_level (NoValue before)
    prev_score, \* the score of the call before the last one
    prev_level, \* the level of the call before the last one
    pc,         \* the last step taken on the score ("input" before the first)
    use_pinecone,   \* config.USE_PINECONE of this run
    vector_db,  \* data_handlers.vector_db: "None", "chromadb" for the
                \* dictionary of the four collections, or "pinecone" for
                \* the pinecone.Index
    pinecone,   \* the Pinecone index: for each namespace the sequence of
                \* its vectors [id, embedding, metadata], oldest first
    chroma,     \* the persistent ChromaDB store: for each collection the
                \* sequence of its entries [id, embedding, metadata,
                \* document], oldest first
    clock,      \* time.time(), in whole seconds
    calls,      \* the number of calls and clock ticks so far
    ret,        \* the outcome of the last call of a tool or of a function of
                \* data_handlers: what was called, whether it raised, the
                \* value returned and the replies the LLM gave during the call
    session_state,  \* st.session_state of each browser session of main.py
    chat_file,  \* the chat history save_chat_history has written
    cache,      \* utils.cache: "data" and "last_update", each by key
    cache_log,  \* the calls of set_cached_data so far: key, data and time
    threads     \* of each thread inside a function of the cache: the
                \* statement it executes next, and its arguments

scoreVars == <<risks, score, level, prev_score, prev_level, pc>>

toolVars == <<use_pinecone, vector_db, pinecone, chroma, clock, calls, ret>>

appVars == <<session_state, chat_file, cache, cache_log, threads>>

NoValue == "none"

(***************************************************************************)
(* Natural numbers of arbitrary size: little-endian sequences of limbs     *)
(* below LimbBase without leading (most significant) zero limbs; <<>> is 0.*)
(* They carry the 53-bit significands of Python floats and their products. *)
(***************************************************************************)
LimbBits == 14
LimbBase == 2^LimbBits

RECURSIVE Pow2(_)
Pow2(n) == IF n = 0 THEN 1 ELSE 2 * Pow2(n - 1)

RECURSIVE BNorm(_)
BNorm(a) ==
    IF a = <<>> THEN <<>>
    ELSE IF a[Len(a)] = 0 THEN BNorm(SubSeq(a, 1, Len(a) - 1))
    ELSE a

RECURSIVE BFromInt(_)
BFromInt(n) ==
    IF n = 0 THEN <<>>
    ELSE <<n % LimbBase>> \o BFromInt(n \div LimbBase)

RECURSIVE BToInt(_)
BToInt(a) ==
    IF a = <<>> THEN 0 ELSE Head(a) + LimbBase * BToInt(Tail(a))

RECURSIVE BAddC(_, _, _)
BAddC(a, b, c) ==
    IF a = <<>> /\ b = <<>> THEN (IF c = 0 THEN <<>> ELSE <<c>>)
    ELSE LET x == IF a = <<>> THEN 0 ELSE Head(a)
             y == IF b = <<>> THEN 0 ELSE Head(b)
             s == x + y + c
         IN  <<s % LimbBase>> \o
             BAddC(IF a = <<>> THEN <<>> ELSE Tail(a),
                   IF b = <<>> THEN <<>> ELSE Tail(b),
                   s \div LimbBase)

BAdd(a, b) == BAddC(a, b, 0)

\* a - b for a >= b
RECURSIVE BSubC(_, _, _)
BSubC(a, b, c) ==
    IF a = <<>> THEN <<>>
    ELSE LET y == IF b = <<>> THEN 0 ELSE Head(b)
             d == Head(a) - y - c
         IN  <<IF d < 0 THEN d + LimbBase ELSE d>> \o
             BSubC(Tail(a), IF b = <<>> THEN <<>> ELSE Tail(b),
                   IF d < 0 THEN 1 ELSE 0)

BSub(a, b) == BNorm(BSubC(a, b, 0))

\* -1, 0, 1 as a < b, a = b, a > b
RECURSIVE BCmpFrom(_, _, _)
BCmpFrom(a, b, i) ==
    IF i = 0 THEN 0
    ELSE IF a[i] < b[i] THEN -1
    ELSE IF a[i] > b[i] THEN 1
    ELSE BCmpFrom(a, b, i - 1)

BCmp(a, b) ==
    IF Len(a) < Len(b) THEN -1
    ELSE IF Len(a) > Len(b) THEN 1
    ELSE BCmpFrom(a, b, Len(a))

\* a * k for 0 <= k < LimbBase
RECURSIVE BMulSmallC(_, _, _)
BMulSmallC(a, k, c) ==
    IF a = <<>> THEN (IF c = 0 THEN <<>> ELSE <<c>>)
    ELSE LET s == Head(a) * k + c
         IN  <<s % LimbBase>> \o BMulSmallC(Tail(a), k, s \div LimbBase)

BMulSmall(a, k) == BNorm(BMulSmallC(a, k, 0))

RECURSIVE BMul(_, _)
BMul(a, b) ==
    IF a = <<>> \/ b = <<>> THEN <<>>
    ELSE LET rest == BMul(a, Tail(b))
         IN  BAdd(BMulSmall(a, Head(b)),
                  IF rest = <<>> THEN <<>> ELSE <<0>> \o rest)

\* quotient and remainder of a by d, 0 < d < LimbBase
RECURSIVE BDivSmallFrom(_, _, _, _)
BDivSmallFrom(a, d, i, r) ==
    IF i = 0 THEN [q |-> <<>>, r |-> r]
    ELSE LET cur  == r * LimbBase + a[i]
             rest == BDivSmallFrom(a, d, i - 1, cur % d)
         IN  [q |-> rest.q \o <<cur \div d>>, r |-> rest.r]

BDivSmall(a, d) ==
    LET res == BDivSmallFrom(a, d, Len(a), 0)
    IN  [q |-> BNorm(res.q), r |-> res.r]

\* a * 2^s
BShl(a, s) ==
    IF a = <<>> THEN <<>>
    ELSE [i \in 1..(s \div LimbBits) |-> 0] \o BMulSmall(a, Pow2(s % LimbBits))

\* floor(a / 2^s), and whether any one bit was shifted out
BShr(a, s) ==
    LET k    == s \div LimbBits
        kept == IF k >= Len(a) THEN <<>> ELSE SubSeq(a, k + 1, Len(a))
        res  == BDivSmall(kept, Pow2(s % LimbBits))
        lost == \E i \in 1..Len(a) : i <= k /\ a[i] # 0
    IN  [q |-> res.q, sticky |-> lost \/ res.r # 0]

RECURSIVE BitLenInt(_)
BitLenInt(n) == IF n = 0 THEN 0 ELSE 1 + BitLenInt(n \div 2)

BBitLen(a) ==
    IF a = <<>> THEN 0 ELSE LimbBits * (Len(a) - 1) + BitLenInt(a[Len(a)])

BOdd(a) == a # <<>> /\ a[1] % 2 = 1

(***************************************************************************)
(* Python floats (IEEE-754 binary64, round to nearest, ties to even): the  *)
(* value of [neg, m, e] is (-1)^neg * m * 2^e with m below 2^Precision     *)
(* (2^Precision itself after a carry). The exponent range is not modelled: *)
(* the values of the model stay far from overflow and from subnormals.     *)
(***************************************************************************)
Precision == 53

FZero == [neg |-> FALSE, m |-> <<>>, e |-> 0]

\* n * 2^e (with `sticky` saying that the exact value is a little more),
\* rounded to Precision bits
FRound(neg, n, e, sticky) ==
    LET len == BBitLen(n)
    IN  IF len <= Precision THEN [neg |-> neg, m |-> n, e |-> e]
        ELSE LET s    == len - Precision
                 t    == BShr(n, s - 1)
                 h    == BDivSmall(t.q, 2)
                 stk  == sticky \/ t.sticky
                 up   == h.r = 1 /\ (stk \/ BOdd(h.q))
             IN  [neg |-> neg,
                  m   |-> IF up THEN BAdd(h.q, <<1>>) ELSE h.q,
                  e   |-> e + s]

FFromInt(n) ==
    [neg |-> n < 0, m |-> BFromInt(IF n < 0 THEN 0 - n ELSE n), e |-> 0]

FMul(x, y) ==
    FRound(x.neg # y.neg, BMul(x.m, y.m), x.e + y.e, FALSE)

\* x / d for an integer 0 < d < LimbBase
FDivInt(x, d) ==
    IF x.m = <<>> THEN x
    ELSE LET k   == Precision + LimbBits
             res == BDivSmall(BShl(x.m, k), d)
         IN  FRound(x.neg, res.q, x.e - k, res.r # 0)

FAdd(x, y) ==
    IF x.m = <<>> THEN (IF y.m = <<>> THEN [y EXCEPT !.neg = x.neg /\ y.neg] ELSE y)
    ELSE IF y.m = <<>> THEN x
    ELSE LET e == IF x.e < y.e THEN x.e ELSE y.e
             a == BShl(x.m, x.e - e)
             b == BShl(y.m, y.e - e)
             c == BCmp(a, b)
         IN  IF x.neg = y.neg THEN FRound(x.neg, BAdd(a, b), e, FALSE)
             ELSE IF c = 0 THEN FZero
             ELSE IF c > 0 THEN FRound(x.neg, BSub(a, b), e, FALSE)
             ELSE FRound(y.neg, BSub(b, a), e, FALSE)

\* x > k for an integer k >= 0
FGtInt(x, k) ==
    /\ ~x.neg
    /\ IF x.e >= 0 THEN BCmp(BShl(x.m, x.e), BFromInt(k)) > 0
       ELSE BCmp(x.m, BShl(BFromInt(k), 0 - x.e)) > 0

\* Python's round(x): the nearest integer, a tie going to the even one
PyRound(x) ==
    LET mag == IF x.e >= 0 THEN BToInt(BShl(x.m, x.e))
               ELSE LET t  == BShr(x.m, (0 - x.e) - 1)
                        h  == BDivSmall(t.q, 2)
                        up == h.r = 1 /\ (t.sticky \/ BOdd(h.q))
                    IN  BToInt(h.q) + (IF up THEN 1 ELSE 0)
    IN  IF x.neg THEN 0 - mag ELSE mag

(***************************************************************************)
(* config.py                                                               *)
(***************************************************************************)
RiskLevel == [LOW |-> "low", MEDIUM |-> "medium", HIGH |-> "high", CRITICAL |-> "critical"]

RISK_SCORE_THRESHOLDS == [low |-> 25, medium |-> 50, high |-> 75, critical |-> 90]

RISK_IMPACT_WEIGHTS ==
    [Financial |-> 25, Resource |-> 20, Schedule |-> 15, Technical |-> 15,
     Operational |-> 10, Market |-> 5, Customer |-> 5, Regulatory |-> 3,
     Strategic |-> 2]

(***************************************************************************)
(* The inputs of the score: risk dictionaries, a probability and an impact *)
(* in hundredths. The first two are risks of create_sample_data; the       *)
(* others bring a value of exactly 1, a negative value, values above 1,    *)
(* an unconfigured and a missing category and a missing probability.       *)
(***************************************************************************)
RiskDomain ==
    { [probability |-> 30, impact |-> 90, category |-> "Security"],
      [probability |-> 60, impact |-> 70, category |-> "Financial"],
      [probability |-> 90, impact |-> 70, category |-> "Operational"],
      [probability |-> 20, impact |-> 20, category |-> "Financial"],
      [probability |-> 60, impact |-> 60, category |-> "Resource"],
      [probability |-> 100, impact |-> 100, category |-> "Financial"],
      [probability |-> 0 - 100, impact |-> 100, category |-> "Financial"],
      [probability |-> 9000, impact |-> 50, category |-> "Financial"],
      [probability |-> 50, impact |-> 5000],
      [impact |-> 80, category |-> "Market"] }

\* the probability, impact and category of the risks that reach the store:
\* those of create_sample_data, of the external risks of
\* IdentifyExternalRisksTool and of the JSON arguments of AddRiskTool
StoredRiskDomain ==
    { [probability |-> 30, impact |-> 90, category |-> "Security"],
      [probability |-> 60, impact |-> 70, category |-> "Financial"],
      [probability |-> 80, impact |-> 50, category |-> "Operational"],
      [probability |-> 40, impact |-> 90, category |-> "Regulatory"],
      [probability |-> 70, impact |-> 60, category |-> "Resource"],
      [probability |-> 50, impact |-> 70, category |-> "Schedule"],
      [probability |-> 30, impact |-> 80, category |-> "Technical"],
      [probability |-> 60, impact |-> 40, category |-> "Operational"],
      [probability |-> 50, impact |-> 30, category |-> "External"],
      [probability |-> 50, impact |-> 60, category |-> "External"],
      [probability |-> 50, impact |-> 90, category |-> "External"],
      [probability |-> 40, impact |-> 50, category |-> "Strategic"],
      [probability |-> 90, impact |-> 90, category |-> "Financial"] }

(***************************************************************************)
(* utils.py: the risk score and the risk level                             *)
(***************************************************************************)
\* dict.get(key, default)
DictGet(d, key, default) == IF key \in DOMAIN d THEN d[key] ELSE default

\* A probability or an impact is written in hundredths: c stands for the
\* Python number whose decimal literal is c/100 (30 for 0.3, 5000 for 50),
\* that is for the float nearest to c/100.
PyNumber(c) == FDivInt(FFromInt(c), 100)

\* the comparison ">= 1" in the place of "> 1"
ToUnitScale_ge(x) ==
    LET ge == /\ ~x.neg
              /\ IF x.e >= 0 THEN BCmp(BShl(x.m, x.e), BFromInt(1)) >= 0
                 ELSE BCmp(x.m, BShl(BFromInt(1), 0 - x.e)) >= 0
    IN  IF ge THEN FDivInt(x, 100) ELSE x

\* "if probability > 1: probability = probability / 100"
ToUnitScale(x) == IF FGtInt(x, 1) THEN FDivInt(x, 100) ELSE x

\* an unconfigured category given the full weight: .get(category, 100)
CategoryWeight_full(category) ==
    FDivInt(FFromInt(DictGet(RISK_IMPACT_WEIGHTS, category, 100)), 100)

\* config.RISK_IMPACT_WEIGHTS.get(category, 1) / 100
CategoryWeight(category) ==
    FDivInt(FFromInt(DictGet(RISK_IMPACT_WEIGHTS, category, 1)), 100)

\* one pass of the loop body: the weighted score of one risk
WeightedScore(risk) ==
    LET probability == ToUnitScale(PyNumber(DictGet(risk, "probability", 0)))
        impact      == ToUnitScale(PyNumber(DictGet(risk, "impact", 0)))
        risk_score  == FMul(FMul(probability, impact), FFromInt(100))
        weight      == CategoryWeight(DictGet(risk, "category", ""))
    IN  FMul(risk_score, weight)

\* the three fields of a risk the loop body reads
ScoredFields(risk) ==
    [f \in DOMAIN risk \cap {"probability", "impact", "category"} |-> risk[f]]

\* the weighted scores of the risks of RiskDomain and of the risks the
\* tools meet, computed once
WeightedScores == [risk \in RiskDomain \cup StoredRiskDomain |-> WeightedScore(risk)]

\* total_score after the first n risks of the list (the value before the
\* n-th pass is computed once and named total_score)
RECURSIVE TotalScore(_, _)
TotalScore(rs, n) ==
    IF n = 0 THEN FFromInt(0)
    ELSE CHOOSE total \in
            { FAdd(total_score,
                   IF ScoredFields(rs[n]) \in DOMAIN WeightedScores
                   THEN WeightedScores[ScoredFields(rs[n])]
                   ELSE WeightedScore(rs[n])) :
              total_score \in {TotalScore(rs, n - 1)} } : TRUE

Min(a, b) == IF a <= b THEN a ELSE b

\* (the list and the total are computed once and named risk_list and
\* total_score)
calculate_risk_score(rs) ==
    CHOOSE result \in
        { IF risk_list = <<>> THEN 0
          ELSE CHOOSE rounded \in
                  { Min(100, PyRound(total_score)) :
                    total_score \in {TotalScore(risk_list, Len(risk_list))} } :
                  TRUE :
          risk_list \in {rs} } : TRUE

\* exclusive upper boundaries: "<" in the place of "<="
get_risk_level_exclusive(s) ==
    IF s < RISK_SCORE_THRESHOLDS[RiskLevel.LOW] THEN RiskLevel.LOW
    ELSE IF s < RISK_SCORE_THRESHOLDS[RiskLevel.MEDIUM] THEN RiskLevel.MEDIUM
    ELSE IF s < RISK_SCORE_THRESHOLDS[RiskLevel.HIGH] THEN RiskLevel.HIGH
    ELSE RiskLevel.CRITICAL

\* a fourth comparison, against the threshold configured for CRITICAL,
\* with HIGH for what is left
get_risk_level_four(s) ==
    IF s <= RISK_SCORE_THRESHOLDS[RiskLevel.LOW] THEN RiskLevel.LOW
    ELSE IF s <= RISK_SCORE_THRESHOLDS[RiskLevel.MEDIUM] THEN RiskLevel.MEDIUM
    ELSE IF s <= RISK_SCORE_THRESHOLDS[RiskLevel.HIGH] THEN RiskLevel.HIGH
    ELSE IF s <= RISK_SCORE_THRESHOLDS[RiskLevel.CRITICAL] THEN RiskLevel.CRITICAL
    ELSE RiskLevel.HIGH

\* the comparisons turned around: ">=" in the place of "<="
get_risk_level_flipped(s) ==
    IF s >= RISK_SCORE_THRESHOLDS[RiskLevel.LOW] THEN RiskLevel.LOW
    ELSE IF s >= RISK_SCORE_THRESHOLDS[RiskLevel.MEDIUM] THEN RiskLevel.MEDIUM
    ELSE IF s >= RISK_SCORE_THRESHOLDS[RiskLevel.HIGH] THEN RiskLevel.HIGH
    ELSE RiskLevel.CRITICAL

get_risk_level(s) ==
    IF s <= RISK_SCORE_THRESHOLDS[RiskLevel.LOW] THEN RiskLevel.LOW
    ELSE IF s <= RISK_SCORE_THRESHOLDS[RiskLevel.MEDIUM] THEN RiskLevel.MEDIUM
    ELSE IF s <= RISK_SCORE_THRESHOLDS[RiskLevel.HIGH] THEN RiskLevel.HIGH
    ELSE RiskLevel.CRITICAL

(***************************************************************************)
(* Python values. A dict is a record, a list a sequence, a str a string;   *)
(* None is PyNone. A timestamp written by format_timestamp is the integer  *)
(* second it formats: "%Y-%m-%d %H:%M:%S" strings of one time zone       *)
(* compare as their seconds do (daylight-saving shifts are not modelled),  *)
(* and the missing timestamp "" of .get("timestamp", "") compares below    *)
(* all of them, as NoTimestamp does.                                       *)
(***************************************************************************)
PyNone == [none |-> TRUE]

NoTimestamp == 0 - 1

\* "if not d" for a value that is None or a dict
NotDict(d) == d = PyNone \/ DOMAIN d = {}

\* d[key] = value
DictSet(d, key, value) ==
    [f \in DOMAIN d \cup {key} |-> IF f = key THEN value ELSE d[f]]

FirstMissing_last(fields, d) ==
    LET missing == SelectSeq(fields, LAMBDA f : f \notin DOMAIN d)
    IN  IF missing = <<>> THEN "" ELSE missing[Len(missing)]

\* the first field of the list fields that is not a key of d, "" if none
RECURSIVE FirstMissing(_, _)
FirstMissing(fields, d) ==
    IF fields = <<>> THEN ""
    ELSE IF Head(fields) \notin DOMAIN d THEN Head(fields)
    ELSE FirstMissing(Tail(fields), d)

\* seq[:n]
Take(seq, n) == SubSeq(seq, 1, Min(n, Len(seq)))

(***************************************************************************)
(* The texts of the model: what the LLM replies and what a tool is handed  *)
(* as its JSON argument, with json.loads and str.strip on them.            *)
(***************************************************************************)
TextProse == "  The outlook is uncertain; costs are rising.  "

TextRisks ==
    "{\"external_risks\": [{\"name\": \"Rate hike\", \"severity\": \"High\", \"monitoring\": \"Track rates\"}, {\"name\": \"Chip shortage\"}]}"

TextHealth == "{\"health_status\": \"Green\", \"key_concerns\": []}"

TextList == "[]"

TextTruncated == "{\"project_id\": \"p1001\", \"name\": "

TextRiskNoCategory == "{\"project_id\": \"p1001\", \"name\": \"Vendor lock-in\"}"

TextRiskNew ==
    "{\"project_id\": \"p1001\", \"name\": \"Vendor lock-in\", \"category\": \"Strategic\", \"probability\": 0.4, \"impact\": 0.5}"

TextRiskR2001 ==
    "{\"id\": \"r2001\", \"project_id\": \"p1001\", \"name\": \"Data Security Breach\", \"category\": \"Financial\", \"probability\": 0.9, \"impact\": 0.9}"

TextRiskStamped ==
    "{\"id\": \"r7001\", \"timestamp\": \"1970-01-01 00:00:05\", \"project_id\": \"p1001\", \"name\": \"Audit finding\", \"category\": \"Compliance\", \"probability\": 0.2, \"impact\": 0.3}"

TextRiskIdOnly == "{\"id\": \"r2001\", \"probability\": 0.9}"

TextMitigateRisk == "{\"risk_id\": \"r2001\"}"

TextMitigateUnknown == "{\"risk_id\": \"r9999\"}"

TextMitigateAll == "{\"project_id\": \"p1001\", \"all_risks\": true}"

TextMitigateNeither == "{\"project_id\": \"p1001\"}"

TextMitigateBoth ==
    "{\"risk_id\": \"r2004\", \"project_id\": \"p1001\", \"all_risks\": true}"

TextMitigateNoRisks == "{\"project_id\": \"p9999\", \"all_risks\": true}"

TextEmptyObject == "{}"

\* what json.loads returns for the texts that are JSON; `kind` tells a dict
\* from a list, numbers are in hundredths as in PyNumber
JsonValues ==
    (TextRisks :> [kind |-> "dict", value |->
        [external_risks |->
            << [name |-> "Rate hike", severity |-> "High",
                monitoring |-> "Track rates"],
               [name |-> "Chip shortage"] >>]])
    @@ (TextHealth :> [kind |-> "dict", value |->
        [health_status |-> "Green", key_concerns |-> <<>>]])
    @@ (TextList :> [kind |-> "list", value |-> <<>>])
    @@ (TextRiskNoCategory :> [kind |-> "dict", value |->
        [project_id |-> "p1001", name |-> "Vendor lock-in"]])
    @@ (TextRiskNew :> [kind |-> "dict", value |->
        [project_id |-> "p1001", name |-> "Vendor lock-in",
         category |-> "Strategic", probability |-> 40, impact |-> 50]])
    @@ (TextRiskR2001 :> [kind |-> "dict", value |->
        [id |-> "r2001", project_id |-> "p1001",
         name |-> "Data Security Breach", category |-> "Financial",
         probability |-> 90, impact |-> 90]])
    @@ (TextRiskStamped :> [kind |-> "dict", value |->
        [id |-> "r7001", timestamp |-> 5, project_id |-> "p1001",
         name |-> "Audit finding", category |-> "Compliance",
         probability |-> 20, impact |-> 30]])
    @@ (TextRiskIdOnly :> [kind |-> "dict", value |->
        [id |-> "r2001", probability |-> 90]])
    @@ (TextMitigateRisk :> [kind |-> "dict", value |-> [risk_id |-> "r2001"]])
    @@ (TextMitigateUnknown :> [kind |-> "dict", value |-> [risk_id |-> "r9999"]])
    @@ (TextMitigateAll :> [kind |-> "dict", value |->
        [project_id |-> "p1001", all_risks |-> TRUE]])
    @@ (TextMitigateNeither :> [kind |-> "dict", value |-> [project_id |-> "p1001"]])
    @@ (TextMitigateBoth :> [kind |-> "dict", value |->
        [risk_id |-> "r2004", project_id |-> "p1001", all_risks |-> TRUE]])
    @@ (TextMitigateNoRisks :> [kind |-> "dict", value |->
        [project_id |-> "p9999", all_risks |-> TRUE]])
    @@ (TextEmptyObject :> [kind |-> "dict", value |-> <<>>])

\* every text taken for JSON: what is not JSON parses to a dict holding it
json_loads_any(text) ==
    IF text \in DOMAIN JsonValues
    THEN [ok |-> TRUE, kind |-> JsonValues[text].kind,
          value |-> JsonValues[text].value]
    ELSE [ok |-> TRUE, kind |-> "dict", value |-> [text |-> text]]

\* json.loads(text): ok is FALSE where it raises json.JSONDecodeError
json_loads(text) ==
    IF text \in DOMAIN JsonValues
    THEN [ok |-> TRUE, kind |-> JsonValues[text].kind,
          value |-> JsonValues[text].value]
    ELSE [ok |-> FALSE]

\* text.strip()
strip(text) ==
    IF text = TextProse THEN "The outlook is uncertain; costs are rising."
    ELSE text

\* the outcomes of one call of the LLM: an exception of the API, or a text
LLMFailure == [error |-> "APIConnectionError"]

LLMOutcomes ==
    {LLMFailure}
    \cup {[text |-> t] : t \in {TextProse, TextRisks, TextHealth, TextList}}

(***************************************************************************)
(* The world a call runs in: the module state (vector_db), the store and   *)
(* the clock, with what the environment decides during the call:           *)
(*   up   how many of the call's vector-database operations succeed before *)
(*        the database fails for the rest of the call (NoFailure: all do), *)
(*   rnd  what random.randint adds to its lower limit,                     *)
(*   llm  the outcomes of the LLM calls, taken in turn (and again from the *)
(*        first one when the call asks more often),                        *)
(*   asked  the outcomes the LLM has given so far in this call,            *)
(*   emb  whether the embeddings API answers during the call.              *)
(* A function of the code is an operator from a world and its arguments to *)
(* [w, raised, value]: the world it leaves, whether it raised, and the     *)
(* value returned (the exception's message when it raised).                *)
(***************************************************************************)
NoFailure == 0 - 1

Returns(w, value) == [w |-> w, raised |-> FALSE, value |-> value]

Raises(w, message) == [w |-> w, raised |-> TRUE, value |-> message]

\* does the next vector-database operation succeed
DbOk(w) == w.up # 0

\* the world after one successful vector-database operation
Used(w) == IF w.up > 0 THEN [w EXCEPT !.up = @ - 1] ELSE w

\* random.randint(lo, hi)
randint(w, lo) == lo + w.rnd

\* format_timestamp(): the current time
format_timestamp(w) == w.clock

\* int(time.time())
time_time(w) == w.clock

\* LLMChain(...).run(...)
chain_run(w) ==
    LET reply == w.llm[(Len(w.asked) % Len(w.llm)) + 1]
        w2    == [w EXCEPT !.asked = Append(@, reply)]
    IN  IF "error" \in DOMAIN reply THEN Raises(w2, reply.error)
        ELSE Returns(w2, reply.text)

(***************************************************************************)
(* data_handlers.py: the ChromaDB branches (USE_PINECONE is False in        *)
(* config.py) and the Pinecone branches (w.use_pinecone)                   *)
(***************************************************************************)
USE_PINECONE == FALSE

EmptyStore ==
    [projects |-> <<>>, risks |-> <<>>, market_data |-> <<>>, reports |-> <<>>]

\* init_chromadb logs and re-raises what the client raises
init_chromadb(w) ==
    IF DbOk(w) THEN Returns(Used(w), "chromadb")
    ELSE Raises(w, "Failed to initialize ChromaDB")

\* vector_db = init_chromadb(): the assignment is not reached on a raise
\* with USE_PINECONE the index, and init_chromadb() when Pinecone fails
init_vector_db(w) ==
    LET r == init_chromadb(w)
    IN  IF w.use_pinecone /\ w.pine
        THEN Returns([w EXCEPT !.vector_db = "pinecone"], "pinecone")
        ELSE IF r.raised THEN r
        ELSE Returns([r.w EXCEPT !.vector_db = r.value], r.value)

\* "if vector_db is None: init_vector_db()", outside every try
LazyInit(w) ==
    IF w.vector_db = "None" THEN init_vector_db(w) ELSE Returns(w, w.vector_db)

\* the length of the vectors of text-embedding-ada-002
EmbeddingDim == 1536

\* [0.0] * 1536
ZeroVector == [i \in 1..EmbeddingDim |-> 0]

\* response.data[0].embedding: a unit vector stands for the vectors the API
\* returns
ApiVector == [i \in 1..EmbeddingDim |-> IF i = 1 THEN 1 ELSE 0]

\* openai_client.embeddings.create(...).data[0].embedding
embeddings_create(w, text) ==
    IF w.emb THEN Returns(w, ApiVector) ELSE Raises(w, "APIConnectionError")

\* get_embedding without its try: the failure of the API propagates
get_embedding_propagating(w, text) == embeddings_create(w, text)

\* get_embedding(text): the zero vector when the call of the API raises
get_embedding(w, text) ==
    LET response == embeddings_create(w, text)
    IN  IF response.raised THEN Returns(w, ZeroVector) ELSE response

\* what the collection keeps of a vector: its length and whether all its
\* components are zero
Indexed(vector) ==
    [dim |-> Len(vector), zero |-> \A i \in 1..Len(vector) : vector[i] = 0]

\* Indexed of the vectors get_embedding returns, computed once
IndexedVectors == [vector \in {ZeroVector, ApiVector} |-> Indexed(vector)]

\* the text representation the store functions embed and store as the
\* document: its first sentence, which names the record (the sentences
\* after it list further fields of the data and are left out)
Document(name, id, data) ==
    IF name = "projects"
    THEN "Project " \o DictGet(data, "name", "Unnamed Project")
            \o " (ID: " \o id \o "): "
    ELSE IF name = "risks"
    THEN "Risk: " \o DictGet(data, "name", "Unnamed Risk")
            \o " (ID: " \o id \o ") for Project ID "
            \o DictGet(data, "project_id", "unknown") \o ". "
    ELSE IF name = "market_data"
    THEN "Market Data (ID: " \o id \o "): Type: "
            \o DictGet(data, "type", "generic") \o ". "
    ELSE "Risk Report (ID: " \o id \o ") for Project ID "
            \o DictGet(data, "project_id", "unknown") \o ". "

\* an upsert that adds an entry whether or not the id is stored
Upsert_appending(coll, id, embedding, metadata, document) ==
    Append(coll, [id |-> id,
                  embedding |-> IF embedding \in DOMAIN IndexedVectors
                                THEN IndexedVectors[embedding]
                                ELSE Indexed(embedding),
                  metadata |-> metadata,
                  document |-> document])

\* collection.upsert(ids=[id], embeddings=[embedding], metadatas=[metadata],
\* documents=[document]):
\* the entry with this id is replaced where it stands, a new id is appended
Upsert(coll, id, embedding, metadata, document) ==
    CHOOSE upserted \in
        { IF \E i \in 1..Len(coll) : coll[i].id = id
          THEN [i \in 1..Len(coll) |->
                    IF coll[i].id = id THEN entry ELSE coll[i]]
          ELSE Append(coll, entry) :
          entry \in {[id |-> id,
                      embedding |-> IF embedding \in DOMAIN IndexedVectors
                                    THEN IndexedVectors[embedding]
                                    ELSE Indexed(embedding),
                      metadata |-> metadata,
                      document |-> document]} } : TRUE

\* results["metadatas"] of collection.get(...)
Metadatas(coll) == [i \in 1..Len(coll) |-> coll[i].metadata]

\* the common body of store_project_data, store_risk_data,
\* store_market_data and store_report on the collection `name`; the id
\* defaults to str(random.randint(10000, 99999)) and is not added to the data
\* str(e) of the AttributeError of a Pinecone call on the dictionary of
\* the ChromaDB collections
NoAttribute(method) == "'dict' object has no attribute '" \o method \o "'"

\* vector_db.upsert(vectors=[(id, embedding, data)], namespace=name)
PineconeUpsert(index, id, embedding, metadata) ==
    CHOOSE upserted \in
        { IF \E i \in 1..Len(index) : index[i].id = id
          THEN [i \in 1..Len(index) |->
                    IF index[i].id = id THEN entry ELSE index[i]]
          ELSE Append(index, entry) :
          entry \in {[id |-> id,
                      embedding |-> IF embedding \in DOMAIN IndexedVectors
                                    THEN IndexedVectors[embedding]
                                    ELSE Indexed(embedding),
                      metadata |-> metadata]} } : TRUE

\* the "if USE_PINECONE" branch of the store functions, inside their try
StoreInPinecone(w, name, id, embedding, data) ==
    IF w.vector_db # "pinecone" THEN Raises(w, NoAttribute("upsert"))
    ELSE IF w.pine
    THEN Returns([w EXCEPT !.pinecone[name] =
                     PineconeUpsert(@, id, embedding, data)], id)
    ELSE Raises(w, "Failed to store " \o name)

\* (each intermediate value is bound once, as the code computes it once)
Store(w, name, data) ==
    CHOOSE stored \in
        { IF init.raised THEN init
          ELSE CHOOSE upserted \in
            { CHOOSE outcome \in
                { IF embedding.raised THEN embedding
                  ELSE IF init.w.use_pinecone
                  THEN StoreInPinecone(init.w, name, id, embedding.value, d)
                  ELSE IF DbOk(init.w)
                  THEN Returns([Used(init.w) EXCEPT
                         !.chroma[name] = Upsert(@, id, embedding.value, d,
                                                 Document(name, id, d))],
                         id)
                  ELSE Raises(init.w, "Failed to store " \o name) :
                  embedding \in
                      {get_embedding(init.w, Document(name, id, d))} } : TRUE :
              id \in {DictGet(d, "id", ToString(randint(init.w, 10000)))} } :
            TRUE :
          init \in {LazyInit(w)}, d \in {data} } : TRUE

store_project_data(w, project_data) == Store(w, "projects", project_data)

\* store_risk_data refusing a risk whose project is not stored
store_risk_data_checked(w, risk_data) ==
    IF \E i \in 1..Len(w.chroma.projects) :
            w.chroma.projects[i].id = DictGet(risk_data, "project_id", "unknown")
    THEN Store(w, "risks", risk_data)
    ELSE Raises(w, "Unknown project")

store_risk_data(w, risk_data) == Store(w, "risks", risk_data)

store_market_data(w, market_data) == Store(w, "market_data", market_data)

store_report(w, report_data) == Store(w, "reports", report_data)

\* the common shape of the read accessors: the lazy initialization outside
\* the try, then the read inside it with `default` returned on a failure
Read(w, value, default) ==
    CHOOSE got \in
        { IF init.raised THEN init
          ELSE IF init.w.use_pinecone
          THEN IF init.w.vector_db = "pinecone" /\ init.w.pine
               THEN Returns(init.w, value)
               ELSE Returns(init.w, default)
          ELSE IF DbOk(init.w) THEN Returns(Used(init.w), value)
          ELSE Returns(init.w, default) :
          init \in {LazyInit(w)} } : TRUE

\* the nearest neighbours of a query: the entries are taken in the order of
\* the collection (the embedding distances are not modelled)
\* the entries of a collection, or of the namespace of the Pinecone index
Entries(w, name) == IF w.use_pinecone THEN w.pinecone[name] ELSE w.chroma[name]

Reverse(seq) == [i \in 1..Len(seq) |-> seq[Len(seq) + 1 - i]]

\* the metadata of the entries in the order in which the backend answers a
\* query: ChromaDB in the order of the collection; Pinecone by nearness to
\* the query vector, which for the dummy vector of zeros is the same for
\* every entry, so that the order is Pinecone's choice (w.near)
Answer(w, name) ==
    IF w.use_pinecone /\ w.near = "reverse"
    THEN Reverse(Metadatas(Entries(w, name)))
    ELSE Metadatas(Entries(w, name))

\* top_k of a Pinecone query
TopK(w, matches, top_k) == IF w.use_pinecone THEN Take(matches, top_k) ELSE matches

query_projects(w, query_text, limit) ==
    Read(w, Take(Answer(w, "projects"), limit), <<>>)

query_risks(w, query_text, project_id, limit) ==
    LET all  == Answer(w, "risks")
        mine == SelectSeq(all, LAMBDA m :
                    "project_id" \in DOMAIN m /\ m.project_id = project_id)
    IN  Read(w, Take(IF project_id # "" THEN mine ELSE all, limit), <<>>)

get_project_by_id(w, project_id) ==
    LET found == SelectSeq(Entries(w, "projects"), LAMBDA e : e.id = project_id)
    IN  Read(w, IF found # <<>> THEN found[1].metadata ELSE PyNone, PyNone)

get_project_risks(w, project_id) ==
    Read(w, TopK(w, SelectSeq(Answer(w, "risks"), LAMBDA m :
                "project_id" \in DOMAIN m /\ m.project_id = project_id), 100),
         <<>>)

SecondsPerHour == 3600

get_recent_market_data_exclusive(w, hours, data_type) ==
    LET cutoff_time == w.clock - hours * SecondsPerHour
        typed  == TopK(w, SelectSeq(Answer(w, "market_data"), LAMBDA m :
                      data_type = "" \/
                      ("type" \in DOMAIN m /\ m.type = data_type)), 100)
        recent == SelectSeq(typed, LAMBDA m :
                      "timestamp" \in DOMAIN m /\ m.timestamp > cutoff_time)
    IN  Read(w, recent, <<>>)

\* data_type "" stands for None as well: the code tests "if data_type";
\* the "" of a missing timestamp is below every formatted cutoff time
get_recent_market_data(w, hours, data_type) ==
    LET cutoff_time == w.clock - hours * SecondsPerHour
        typed  == TopK(w, SelectSeq(Answer(w, "market_data"), LAMBDA m :
                      data_type = "" \/
                      ("type" \in DOMAIN m /\ m.type = data_type)), 100)
        recent == SelectSeq(typed, LAMBDA m :
                      "timestamp" \in DOMAIN m /\ m.timestamp >= cutoff_time)
    IN  Read(w, recent, <<>>)

\* list.sort(key=timestamp, reverse=True): stable, the newest first
RECURSIVE InsertNewestFirst(_, _)
InsertNewestFirst(sorted, r) ==
    IF sorted = <<>> THEN <<r>>
    ELSE IF DictGet(Head(sorted), "timestamp", NoTimestamp)
                >= DictGet(r, "timestamp", NoTimestamp)
         THEN <<Head(sorted)>> \o InsertNewestFirst(Tail(sorted), r)
         ELSE <<r>> \o sorted

RECURSIVE SortNewestFirst(_)
SortNewestFirst(seq) ==
    IF seq = <<>> THEN <<>>
    ELSE InsertNewestFirst(SortNewestFirst(SubSeq(seq, 1, Len(seq) - 1)),
                           seq[Len(seq)])

\* Pinecone: the top_k = limit matches, then sorted; ChromaDB: all the
\* reports of the project sorted, then the first limit of them
get_project_reports(w, project_id, limit) ==
    LET reports == SelectSeq(Answer(w, "reports"), LAMBDA m :
                       "project_id" \in DOMAIN m /\ m.project_id = project_id)
    IN  Read(w, IF w.use_pinecone
                THEN SortNewestFirst(Take(reports, limit))
                ELSE Take(SortNewestFirst(reports), limit), <<>>)

get_all_projects(w) == Read(w, TopK(w, Answer(w, "projects"), 1000), <<>>)

\* the dictionaries of create_sample_data, with the fields the tools read
\* (dates, budget, team size, client, description, details and source are
\* carried along unread and left out)
SampleProjects ==
    << [id |-> "p1001", name |-> "Cloud Migration", status |-> "In Progress",
        industry |-> "Finance"],
       [id |-> "p1002", name |-> "Mobile Banking App", status |-> "Planning",
        industry |-> "Banking"],
       [id |-> "p1003", name |-> "Data Center Upgrade",
        status |-> "In Progress", industry |-> "Technology"] >>

SampleRisk(id, project_id, name, category, probability, impact, mitigation) ==
    [id |-> id, project_id |-> project_id, name |-> name,
     category |-> category, probability |-> probability, impact |-> impact,
     status |-> "Active", mitigation |-> mitigation]

SampleRisks ==
    << SampleRisk("r2001", "p1001", "Data Security Breach", "Security", 30, 90,
           "Implement end-to-end encryption and conduct security audits before, during, and after migration."),
       SampleRisk("r2002", "p1001", "Budget Overrun", "Financial", 60, 70,
           "Implement strict cost controls and weekly budget reviews."),
       SampleRisk("r2003", "p1001", "Service Disruption", "Operational", 80, 50,
           "Plan for off-hours migration windows and implement redundant systems."),
       SampleRisk("r2004", "p1002", "Regulatory Compliance Issues",
           "Regulatory", 40, 90, "Engage compliance experts and conduct regular regulatory reviews."),
       SampleRisk("r2005", "p1002", "Technical Skill Shortage", "Resource",
           70, 60, "Allocate budget for hiring contractors or training existing staff."),
       SampleRisk("r2006", "p1003", "Hardware Delivery Delays", "Schedule",
           50, 70, "Order hardware with buffer time and identify alternative suppliers."),
       SampleRisk("r2007", "p1003", "Power System Failure", "Technical",
           30, 80, "Conduct power assessment and upgrade power systems before equipment installation."),
       SampleRisk("r2008", "p1003", "Staff Resistance", "Operational",
           60, 40, "Implement change management plan with training and regular communication.") >>

SampleMarketData(w) ==
    << [id |-> "m3001", type |-> "industry_trend",
        timestamp |-> format_timestamp(w),
        summary |-> "Cloud services pricing decreased by 15% on average"],
       [id |-> "m3002", type |-> "economic_indicator",
        timestamp |-> format_timestamp(w),
        summary |-> "Interest rates increased by 0.5%"],
       [id |-> "m3003", type |-> "technology_trend",
        timestamp |-> format_timestamp(w),
        summary |-> "Mobile banking adoption increased by 35% year-over-year"],
       [id |-> "m3004", type |-> "security_alert",
        timestamp |-> format_timestamp(w),
        summary |-> "New vulnerability discovered in common cloud security protocol"] >>

\* "for item in items: store(item)": the loop ends at the first raise
RECURSIVE StoreAll(_, _, _)
StoreAll(w, name, items) ==
    IF items = <<>> THEN Returns(w, PyNone)
    ELSE LET r == Store(w, name, Head(items))
         IN  IF r.raised THEN r ELSE StoreAll(r.w, name, Tail(items))

create_sample_data(w) ==
    LET init == LazyInit(w)
        p    == StoreAll(init.w, "projects", SampleProjects)
        r    == StoreAll(p.w, "risks", SampleRisks)
        m    == StoreAll(r.w, "market_data", SampleMarketData(w))
    IN  IF init.raised THEN init
        ELSE IF p.raised THEN p
        ELSE IF r.raised THEN r
        ELSE IF m.raised THEN m
        ELSE Returns(m.w, [projects |-> Len(SampleProjects),
                           risks |-> Len(SampleRisks),
                           market_data |-> Len(SampleMarketData(w))])

(***************************************************************************)
(* tools.py: the _run of each tool                                         *)
(***************************************************************************)
NotFound(project_id) == [error |-> "Project with ID " \o project_id \o " not found"]

ProjectInfoTool_run(w, project_id) ==
    LET project == get_project_by_id(w, project_id)
    IN  IF project.raised THEN project
        ELSE IF NotDict(project.value)
             THEN Returns(project.w, NotFound(project_id))
        ELSE project

ListProjectsTool_run(w) == get_all_projects(w)

SearchProjectsTool_run(w, query_text) == query_projects(w, query_text, 5)

ProjectRisksTool_run(w, project_id) == get_project_risks(w, project_id)

\* the dict returned for a project that has risks
ScoreOfProject(project_id, rs, sc) ==
    [project_id |-> project_id, score |-> sc, level |-> get_risk_level(sc),
     risks_count |-> Len(rs)]

CalculateRiskScoreTool_run(w, project_id) ==
    LET got == get_project_risks(w, project_id)
    IN  IF got.raised THEN got
        ELSE IF got.value = <<>>
             THEN Returns(got.w, [project_id |-> project_id, score |-> 0,
                                  level |-> "low", risks_count |-> 0])
        ELSE Returns(got.w, ScoreOfProject(project_id, got.value,
                                           calculate_risk_score(got.value)))

MarketDataTool_run(w, hours, data_type) ==
    get_recent_market_data(w, hours, data_type)

\* str(e) of the AttributeError of ".get" on a list
NoGetOnList == "'list' object has no attribute 'get'"

required_fields == <<"project_id", "name", "category", "probability", "impact">>

AddRiskTool_run(w, risk_data_json) ==
    LET parsed    == json_loads(risk_data_json)
        risk_data == parsed.value
        missing   == FirstMissing(required_fields, risk_data)
        stamped   == IF "timestamp" \in DOMAIN risk_data THEN risk_data
                     ELSE DictSet(risk_data, "timestamp", format_timestamp(w))
        with_id   == IF "id" \in DOMAIN stamped THEN stamped
                     ELSE DictSet(stamped, "id",
                                  "r" \o ToString(randint(w, 1000)))
        stored    == store_risk_data(w, with_id)
    IN  IF ~parsed.ok
        THEN Returns(w, [error |-> "Invalid JSON format for risk data"])
        ELSE IF parsed.kind # "dict"
        THEN Returns(w, [error |-> "Failed to add risk: " \o NoGetOnList])
        ELSE IF missing # ""
        THEN Returns(w, [error |-> "Missing required field: " \o missing])
        ELSE IF stored.raised
        THEN Returns(stored.w,
                     [error |-> "Failed to add risk: " \o stored.value])
        ELSE Returns(stored.w, [success |-> TRUE, risk_id |-> stored.value,
                                message |-> "Risk added successfully"])

\* UpdateRiskTool._run that keeps the fields of the stored risk which the
\* update omits
UpdateRiskTool_run_merging(w, risk_data_json) ==
    LET parsed    == json_loads(risk_data_json)
        risk_data == parsed.value
        olds      == SelectSeq(w.chroma.risks, LAMBDA e : e.id = risk_data.id)
        merged    == IF olds = <<>> THEN risk_data
                     ELSE [k \in DOMAIN olds[1].metadata \cup DOMAIN risk_data |->
                              IF k \in DOMAIN risk_data THEN risk_data[k]
                              ELSE olds[1].metadata[k]]
        stored    == store_risk_data(w, merged)
    IN  IF ~parsed.ok
        THEN Returns(w, [error |-> "Invalid JSON format for risk data"])
        ELSE IF parsed.kind # "dict"
        THEN Returns(w, [error |-> "Failed to update risk: " \o NoGetOnList])
        ELSE IF "id" \notin DOMAIN risk_data
        THEN Returns(w, [error |-> "Missing required field: id"])
        ELSE IF stored.raised
        THEN Returns(stored.w,
                     [error |-> "Failed to update risk: " \o stored.value])
        ELSE Returns(stored.w, [success |-> TRUE, risk_id |-> stored.value,
                                message |-> "Risk updated successfully"])

UpdateRiskTool_run(w, risk_data_json) ==
    LET parsed    == json_loads(risk_data_json)
        risk_data == parsed.value
        stored    == store_risk_data(w, risk_data)
    IN  IF ~parsed.ok
        THEN Returns(w, [error |-> "Invalid JSON format for risk data"])
        ELSE IF parsed.kind # "dict"
        THEN Returns(w, [error |-> "Failed to update risk: " \o NoGetOnList])
        ELSE IF "id" \notin DOMAIN risk_data
        THEN Returns(w, [error |-> "Missing required field: id"])
        ELSE IF stored.raised
        THEN Returns(stored.w,
                     [error |-> "Failed to update risk: " \o stored.value])
        ELSE Returns(stored.w, [success |-> TRUE, risk_id |-> stored.value,
                                message |-> "Risk updated successfully"])

\* utils.format_risk_report: the markdown text, as the values it is written
\* from
format_risk_report(w, project_name, rs, overall_score) ==
    [project_name |-> project_name, overall_score |-> overall_score,
     risk_level |-> get_risk_level(overall_score),
     generated |-> format_timestamp(w), risks |-> rs]

\* the part of GenerateRiskReportTool._run after the score: the summary of
\* the LLM, the report and its storing (w is the world after the reads)
ReportOfProject(w, project_id, name, rs, overall_score) ==
    LET risk_level == get_risk_level(overall_score)
        summary == chain_run(w)
        report_data ==
            [id |-> "report-" \o project_id \o "-" \o ToString(time_time(w)),
             project_id |-> project_id,
             project_name |-> name,
             timestamp |-> format_timestamp(w),
             overall_score |-> overall_score,
             risk_level |-> risk_level,
             risks_count |-> Len(rs),
             summary |-> strip(summary.value),
             content |-> format_risk_report(w, name, rs, overall_score)]
        stored  == store_report(summary.w, report_data)
    IN  IF summary.raised THEN summary
        ELSE IF stored.raised THEN stored
        ELSE Returns(stored.w, DictSet(report_data, "report_id", stored.value))

GenerateRiskReportTool_run_unchecked(w, project_id) ==
    LET project == get_project_by_id(w, project_id)
        got     == get_project_risks(project.w, project_id)
    IN  IF project.raised THEN project
        ELSE IF got.raised THEN got
        ELSE ReportOfProject(got.w, project_id,
                 DictGet(project.value, "name", "Unnamed Project"),
                 got.value, calculate_risk_score(got.value))

GenerateRiskReportTool_run(w, project_id) ==
    LET project == get_project_by_id(w, project_id)
        got     == get_project_risks(project.w, project_id)
    IN  IF project.raised THEN project
        ELSE IF NotDict(project.value)
             THEN Returns(project.w, NotFound(project_id))
        ELSE IF got.raised THEN got
        ELSE ReportOfProject(got.w, project_id,
                 DictGet(project.value, "name", "Unnamed Project"),
                 got.value, calculate_risk_score(got.value))

GetProjectReportsTool_run(w, project_id, limit) ==
    get_project_reports(w, project_id, limit)

FetchMarketNewsTool_run(w, industry) ==
    LET industry_value == IF industry # "" THEN industry ELSE "technology"
        result == chain_run(w)
        parsed == json_loads(result.value)
        market_entry ==
            [id |-> "market-" \o ToString(time_time(w)),
             type |-> "market_analysis",
             industry |-> industry_value,
             timestamp |-> format_timestamp(w),
             summary |-> "Market analysis for " \o industry_value \o " industry",
             details |-> parsed.value]
        stored == store_market_data(result.w, market_entry)
    IN  IF result.raised THEN result
        ELSE IF ~parsed.ok
        THEN Returns(result.w, [error |-> "Failed to parse market data",
                                raw_output |-> result.value])
        ELSE IF stored.raised THEN stored
        ELSE Returns(stored.w, parsed.value)

\* scores.sort(key=timestamp): stable, the oldest first
RECURSIVE InsertOldestFirst(_, _)
InsertOldestFirst(sorted, s) ==
    IF sorted = <<>> THEN <<s>>
    ELSE IF Head(sorted).timestamp <= s.timestamp
         THEN <<Head(sorted)>> \o InsertOldestFirst(Tail(sorted), s)
         ELSE <<s>> \o sorted

RECURSIVE SortOldestFirst(_)
SortOldestFirst(seq) ==
    IF seq = <<>> THEN <<>>
    ELSE InsertOldestFirst(SortOldestFirst(SubSeq(seq, 1, Len(seq) - 1)),
                           seq[Len(seq)])

\* get_project_reports(project_id, limit=10) of AnalyzeRiskTrendsTool
TrendLimit == 10

TrendOf_inclusive(difference) ==
    IF difference >= 5 THEN "increasing"
    ELSE IF difference < 0 - 5 THEN "decreasing"
    ELSE "stable"

TrendOf(difference) ==
    IF difference > 5 THEN "increasing"
    ELSE IF difference < 0 - 5 THEN "decreasing"
    ELSE "stable"

AnalyzeRiskTrendsTool_run(w, project_id) ==
    LET got     == get_project_reports(w, project_id, TrendLimit)
        reports == got.value
        scores  == SortOldestFirst(
                       [i \in 1..Len(reports) |->
                           [timestamp |-> DictGet(reports[i], "timestamp",
                                                  NoTimestamp),
                            score |-> DictGet(reports[i], "overall_score", 0)]])
        difference == scores[Len(scores)].score - scores[1].score
        trend   == IF Len(scores) >= 2 THEN TrendOf(difference)
                   ELSE "insufficient_data"
        message == "Not enough historical data to determine a trend."
        analysis == IF Len(scores) >= 2 THEN chain_run(got.w)
                    ELSE Returns(got.w, message)
    IN  IF got.raised THEN got
        ELSE IF reports = <<>>
        THEN Returns(got.w,
                 [project_id |-> project_id,
                  trend |-> "No historical data available",
                  analysis |-> "No trend analysis possible without historical data."])
        ELSE IF analysis.raised THEN analysis
        ELSE Returns(analysis.w,
                 [project_id |-> project_id, trend |-> trend,
                  score_history |-> scores,
                  analysis |-> strip(analysis.value)])

\* the body of one of the two mitigation branches for one risk: the LLM
\* writes the strategy, the risk is stored with it
MitigateRisk(w, risk) ==
    LET strategy == chain_run(w)
        stored   == store_risk_data(strategy.w,
                        DictSet(risk, "mitigation", strip(strategy.value)))
    IN  IF strategy.raised THEN strategy
        ELSE IF stored.raised THEN stored
        ELSE Returns(stored.w, strip(strategy.value))

\* the loop as a transaction: a raise leaves the collections as they were
\* before the call
RECURSIVE MitigateAll_atomic(_, _, _)
MitigateAll_atomic(w, rs, updated_risks) ==
    IF rs = <<>> THEN Returns(w, updated_risks)
    ELSE LET one == MitigateRisk(w, Head(rs))
         IN  IF one.raised THEN [one EXCEPT !.w.chroma = chroma]
             ELSE MitigateAll_atomic(one.w, Tail(rs),
                      Append(updated_risks,
                          [risk_id |-> DictGet(Head(rs), "id", PyNone),
                           name |-> DictGet(Head(rs), "name", PyNone),
                           mitigation_strategy |-> one.value]))

\* "for risk in risks": the loop ends at the first raise; updated_risks is
\* the list collected so far
RECURSIVE MitigateAll(_, _, _)
MitigateAll(w, rs, updated_risks) ==
    IF rs = <<>> THEN Returns(w, updated_risks)
    ELSE LET one == MitigateRisk(w, Head(rs))
         IN  IF one.raised THEN one
             ELSE MitigateAll(one.w, Tail(rs),
                      Append(updated_risks,
                          [risk_id |-> DictGet(Head(rs), "id", PyNone),
                           name |-> DictGet(Head(rs), "name", PyNone),
                           mitigation_strategy |-> one.value]))

MitigationFailed(message) ==
    [error |-> "Failed to generate mitigation strategies: " \o message]

GenerateMitigationStrategiesTool_run(w, input_data) ==
    LET parsed     == json_loads(input_data)
        input_json == parsed.value
        risk_id    == DictGet(input_json, "risk_id", "")
        project_id == DictGet(input_json, "project_id", "")
        all_risks  == DictGet(input_json, "all_risks", FALSE)
        queried    == query_risks(w, "", "", 100)
        target     == SelectSeq(queried.value,
                          LAMBDA r : "id" \in DOMAIN r /\ r.id = risk_id)
        one        == MitigateRisk(queried.w, target[1])
        got        == get_project_risks(w, project_id)
        all        == MitigateAll(got.w, got.value, <<>>)
    IN  IF ~parsed.ok THEN Returns(w, [error |-> "Invalid JSON input"])
        ELSE IF parsed.kind # "dict"
        THEN Returns(w, MitigationFailed(NoGetOnList))
        ELSE IF risk_id # ""
        THEN IF queried.raised
             THEN Returns(queried.w, MitigationFailed(queried.value))
             ELSE IF target = <<>>
             THEN Returns(queried.w,
                      [error |-> "Risk with ID " \o risk_id \o " not found"])
             ELSE IF one.raised
             THEN Returns(one.w, MitigationFailed(one.value))
             ELSE Returns(one.w, [risk_id |-> risk_id,
                                  mitigation_strategy |-> one.value])
        ELSE IF project_id # "" /\ all_risks
        THEN IF got.raised THEN Returns(got.w, MitigationFailed(got.value))
             ELSE IF got.value = <<>>
             THEN Returns(got.w,
                      [error |-> "No risks found for project " \o project_id])
             ELSE IF all.raised
             THEN Returns(all.w, MitigationFailed(all.value))
             ELSE Returns(all.w, [project_id |-> project_id,
                                  updated_risks_count |-> Len(all.value),
                                  updated_risks |-> all.value])
        ELSE Returns(w, [error |-> "Invalid input. Provide either a risk_id or a project_id with all_risks=true"])

\* severity_map.get(risk.get("severity", "Medium"), 0.6), in hundredths
SeverityImpact(risk) ==
    LET severity == DictGet(risk, "severity", "Medium")
    IN  IF severity = "Low" THEN 30
        ELSE IF severity = "High" THEN 90
        ELSE 60

\* "for idx, risk in enumerate(...)": one risk entry stored per external
\* risk, the loop ends at the first raise
RECURSIVE StoreExternalRisks(_, _, _, _)
StoreExternalRisks(w, project_id, external, idx) ==
    IF idx >= Len(external) THEN Returns(w, PyNone)
    ELSE LET risk == external[idx + 1]
             risk_data ==
                 [id |-> "r-ext-" \o project_id \o "-"
                         \o ToString(time_time(w)) \o "-" \o ToString(idx),
                  project_id |-> project_id,
                  name |-> DictGet(risk, "name", "Unnamed External Risk"),
                  description |-> DictGet(risk, "description", "No description"),
                  category |-> "External",
                  probability |-> 50,
                  impact |-> SeverityImpact(risk),
                  status |-> "Active",
                  mitigation |->
                      "Monitoring: "
                      \o DictGet(risk, "monitoring", "No monitoring strategy")
                      \o "\n\nImpact: "
                      \o DictGet(risk, "impact", "Unknown impact"),
                  source |-> "External Risk Analysis",
                  timestamp |-> format_timestamp(w)]
             stored == store_risk_data(w, risk_data)
         IN  IF stored.raised THEN stored
             ELSE StoreExternalRisks(stored.w, project_id, external, idx + 1)

\* project_id "" stands for None as well: the code tests "if project_id"
IdentifyExternalRisksTool_run(w, project_id) ==
    LET market  == get_recent_market_data(w, 48, "")
        project == IF project_id # ""
                   THEN get_project_by_id(market.w, project_id)
                   ELSE Returns(market.w, PyNone)
        result  == chain_run(project.w)
        parsed  == json_loads(result.value)
        stored  == StoreExternalRisks(result.w, project_id,
                       DictGet(parsed.value, "external_risks", <<>>), 0)
    IN  IF market.raised THEN market
        ELSE IF market.value = <<>>
        THEN Returns(market.w, [message |-> "No recent market data available",
                                external_risks |-> <<>>])
        ELSE IF project.raised THEN project
        ELSE IF result.raised THEN result
        ELSE IF ~parsed.ok
        THEN Returns(result.w, [error |-> "Failed to parse external risks data",
                                raw_output |-> result.value])
        ELSE IF NotDict(project.value) \/ project_id = ""
        THEN Returns(result.w, parsed.value)
        ELSE IF parsed.kind # "dict" THEN Raises(result.w, NoGetOnList)
        ELSE IF stored.raised THEN stored
        ELSE Returns(stored.w, parsed.value)

CreateSampleDataTool_run(w) == create_sample_data(w)

\* the part of AnalyzeProjectHealthTool._run after the score: the analysis
\* of the LLM and its parsing (w is the world after the reads)
HealthOfProject(w, project_id, name, risk_score) ==
    LET basic   == [project_id |-> project_id,
                    project_name |-> name,
                    risk_score |-> risk_score,
                    risk_level |-> get_risk_level(risk_score)]
        result  == chain_run(w)
        parsed  == json_loads(result.value)
    IN  IF result.raised THEN result
        ELSE IF ~parsed.ok
        THEN Returns(result.w,
                 DictSet(DictSet(basic, "error", "Failed to parse health analysis"),
                         "raw_output", result.value))
        ELSE Returns(result.w, DictSet(basic, "health_analysis", parsed.value))

AnalyzeProjectHealthTool_run(w, project_id) ==
    LET project == get_project_by_id(w, project_id)
        got     == get_project_risks(project.w, project_id)
    IN  IF project.raised THEN project
        ELSE IF NotDict(project.value)
             THEN Returns(project.w, NotFound(project_id))
        ELSE IF got.raised THEN got
        ELSE HealthOfProject(got.w, project_id,
                 DictGet(project.value, "name", "Unnamed Project"),
                 calculate_risk_score(got.value))

(***************************************************************************)
(* The calls: what a caller hands over and what the environment decides.   *)
(***************************************************************************)
MaxUp == 3
MaxRandom == 1
MaxReplies == 2
MaxCalls == 2

\* a later time, beyond the 48 hours IdentifyExternalRisksTool looks back
HoursLater == 49

UpChoices == {NoFailure} \cup 0..MaxUp

RandomChoices == 0..MaxRandom

\* one LLM call whose reply is parsed as JSON
OneReply == [1..1 -> LLMOutcomes]

\* one LLM call whose reply is used as a text
OneText == [1..1 -> {o \in LLMOutcomes : o \in {LLMFailure, [text |-> TextProse]}}]

\* the LLM calls of a loop
ReplyLists ==
    [1..MaxReplies ->
        {o \in LLMOutcomes :
            o \in {LLMFailure, [text |-> TextProse], [text |-> TextHealth]}}]

ProjectIds == {"p1001", "p9999"}

QueryTexts == {"cloud"}

Limits == {1, 5}

HoursBack == {24}

DataTypes == {"", "security_alert"}

Industries == {"", "finance"}

RiskJsonInputs ==
    {TextTruncated, TextList, TextRiskNoCategory, TextRiskNew, TextRiskR2001,
     TextRiskStamped}

UpdateJsonInputs == RiskJsonInputs \cup {TextRiskIdOnly}

MitigationInputs ==
    {TextTruncated, TextList, TextMitigateRisk, TextMitigateUnknown,
     TextMitigateAll, TextMitigateNeither, TextMitigateBoth,
     TextMitigateNoRisks, TextEmptyObject}

\* the world of a call that starts in the current state
World(up, rnd, llm, emb) ==
    [use_pinecone |-> use_pinecone, vector_db |-> vector_db,
     pinecone |-> pinecone, chroma |-> chroma, clock |-> clock,
     up |-> up, rnd |-> rnd, llm |-> llm, asked |-> <<>>, emb |-> emb,
     pine |-> TRUE, near |-> "stored"]

\* the call `op` ends with the outcome r
Done(op, args, outcome) ==
    /\ calls < MaxCalls
    /\ \E r \in {outcome} :
        /\ calls' = calls + 1
        /\ vector_db' = r.w.vector_db
        /\ chroma' = r.w.chroma
        /\ pinecone' = r.w.pinecone
        /\ ret' = [op |-> op, args |-> args, raised |-> r.raised,
                   value |-> r.value, llm |-> r.w.asked, emb |-> r.w.emb]
        /\ UNCHANGED <<use_pinecone, clock, scoreVars, appVars>>

\* time passes between two calls: a second, or HoursLater hours
Tick ==
    \E d \in {1, HoursLater * SecondsPerHour} :
        /\ calls < MaxCalls
        /\ calls' = calls + 1
        /\ clock' = clock + d
        /\ UNCHANGED <<use_pinecone, vector_db, pinecone, chroma, ret,
                       scoreVars, appVars>>

\* no score is being computed: the variables of ScoreSpec at rest
ScoreIdle ==
    /\ risks = <<>>
    /\ score = NoValue
    /\ level = NoValue
    /\ prev_score = NoValue
    /\ prev_level = NoValue
    /\ pc = "idle"

\* no tool is being called: the variables of the store at rest
ToolIdle ==
    /\ use_pinecone = USE_PINECONE
    /\ vector_db = "None"
    /\ pinecone = EmptyStore
    /\ chroma = EmptyStore
    /\ clock = 0
    /\ calls = 0
    /\ ret = [op |-> "import", args |-> <<>>, raised |-> FALSE,
              value |-> PyNone, llm |-> <<>>, emb |-> TRUE]

\* the browser sessions a Streamlit server runs main.py for
MaxSessions == 2

Sessions == 1..MaxSessions

\* the session has not run the script yet
NoSession == [none |-> TRUE]

\* utils.setup_cache(): two empty dicts
setup_cache == [last_update |-> <<>>, data |-> <<>>]

MaxThreads == 2

Threads == 1..MaxThreads

\* the thread is in no function of the cache
NoCall == [pc |-> "idle"]

\* main.py and the cache of utils at rest: no session, nothing saved, the
\* cache as the import of utils leaves it, no thread inside it
AppIdle ==
    /\ session_state = [s \in Sessions |-> NoSession]
    /\ chat_file = <<>>
    /\ cache = setup_cache
    /\ cache_log = <<>>
    /\ threads = [t \in Threads |-> NoCall]

\* the store an earlier run of create_sample_data has left on the disk
\* the world of a first call, with everything it talks to in order
FreshWorld ==
    [use_pinecone |-> USE_PINECONE, vector_db |-> "None",
     pinecone |-> EmptyStore, chroma |-> EmptyStore, clock |-> 0,
     up |-> NoFailure, rnd |-> 0, llm |-> <<>>, asked |-> <<>>, emb |-> TRUE,
     pine |-> TRUE, near |-> "stored"]

SampleStore == create_sample_data(FreshWorld).w.chroma

\* after the import of data_handlers: init_vector_db has run inside a try,
\* vector_db is None where it raised; the persistent store is empty (the
\* first run) or holds the sample data of an earlier run
ToolInit ==
    /\ use_pinecone = USE_PINECONE
    /\ pinecone = EmptyStore
    /\ vector_db \in {"None", "chromadb"}
    /\ chroma \in {EmptyStore, SampleStore}
    /\ clock = 0
    /\ calls = 0
    /\ ret = [op |-> "import", args |-> <<>>, raised |-> FALSE,
              value |-> PyNone, llm |-> <<>>, emb |-> TRUE]
    /\ ScoreIdle
    /\ AppIdle

ProjectInfoTool ==
    \E project_id \in ProjectIds, up \in UpChoices :
        Done("ProjectInfoTool", <<project_id>>,
             ProjectInfoTool_run(World(up, 0, <<>>, TRUE), project_id))

ListProjectsTool ==
    \E up \in UpChoices :
        Done("ListProjectsTool", <<>>,
             ListProjectsTool_run(World(up, 0, <<>>, TRUE)))

SearchProjectsTool ==
    \E query_text \in QueryTexts, up \in UpChoices :
        Done("SearchProjectsTool", <<query_text>>,
             SearchProjectsTool_run(World(up, 0, <<>>, TRUE), query_text))

ProjectRisksTool ==
    \E project_id \in ProjectIds, up \in UpChoices :
        Done("ProjectRisksTool", <<project_id>>,
             ProjectRisksTool_run(World(up, 0, <<>>, TRUE), project_id))

CalculateRiskScoreTool ==
    \E project_id \in ProjectIds, up \in UpChoices :
        Done("CalculateRiskScoreTool", <<project_id>>,
             CalculateRiskScoreTool_run(World(up, 0, <<>>, TRUE), project_id))

MarketDataTool ==
    \E hours \in HoursBack, data_type \in DataTypes, up \in UpChoices :
        Done("MarketDataTool", <<hours, data_type>>,
             MarketDataTool_run(World(up, 0, <<>>, TRUE), hours, data_type))

AddRiskTool ==
    \E text \in RiskJsonInputs, up \in UpChoices, emb \in BOOLEAN, rnd \in RandomChoices :
        Done("AddRiskTool", <<text>>,
             AddRiskTool_run(World(up, rnd, <<>>, emb), text))

UpdateRiskTool ==
    \E text \in UpdateJsonInputs, up \in UpChoices, emb \in BOOLEAN :
        Done("UpdateRiskTool", <<text>>,
             UpdateRiskTool_run(World(up, 0, <<>>, emb), text))

GenerateRiskReportTool ==
    \E project_id \in ProjectIds, up \in UpChoices, emb \in BOOLEAN, llm \in OneText :
        Done("GenerateRiskReportTool", <<project_id>>,
             GenerateRiskReportTool_run(World(up, 0, llm, emb), project_id))

GetProjectReportsTool ==
    \E project_id \in ProjectIds, limit \in Limits, up \in UpChoices :
        Done("GetProjectReportsTool", <<project_id, limit>>,
             GetProjectReportsTool_run(World(up, 0, <<>>, TRUE), project_id,
                                       limit))

FetchMarketNewsTool ==
    \E industry \in Industries, up \in UpChoices, emb \in BOOLEAN, llm \in OneReply :
        Done("FetchMarketNewsTool", <<industry>>,
             FetchMarketNewsTool_run(World(up, 0, llm, emb), industry))

AnalyzeRiskTrendsTool ==
    \E project_id \in ProjectIds, up \in UpChoices, llm \in OneText :
        Done("AnalyzeRiskTrendsTool", <<project_id>>,
             AnalyzeRiskTrendsTool_run(World(up, 0, llm, TRUE), project_id))

GenerateMitigationStrategiesTool ==
    \E text \in MitigationInputs, up \in UpChoices, emb \in BOOLEAN, llm \in ReplyLists :
        Done("GenerateMitigationStrategiesTool", <<text>>,
             GenerateMitigationStrategiesTool_run(World(up, 0, llm, emb), text))

IdentifyExternalRisksTool ==
    \E project_id \in ProjectIds \cup {""}, up \in UpChoices, emb \in BOOLEAN, llm \in OneReply :
        Done("IdentifyExternalRisksTool", <<project_id>>,
             IdentifyExternalRisksTool_run(World(up, 0, llm, emb), project_id))

CreateSampleDataTool ==
    \E up \in UpChoices, emb \in BOOLEAN :
        Done("CreateSampleDataTool", <<>>,
             CreateSampleDataTool_run(World(up, 0, <<>>, emb)))

AnalyzeProjectHealthTool ==
    \E project_id \in ProjectIds, up \in UpChoices, llm \in OneReply :
        Done("AnalyzeProjectHealthTool", <<project_id>>,
             AnalyzeProjectHealthTool_run(World(up, 0, llm, TRUE), project_id))

ToolNext ==
    \/ ProjectInfoTool \/ ListProjectsTool \/ SearchProjectsTool
    \/ ProjectRisksTool \/ CalculateRiskScoreTool \/ MarketDataTool
    \/ AddRiskTool \/ UpdateRiskTool \/ GenerateRiskReportTool
    \/ GetProjectReportsTool \/ FetchMarketNewsTool \/ AnalyzeRiskTrendsTool
    \/ GenerateMitigationStrategiesTool \/ IdentifyExternalRisksTool
    \/ CreateSampleDataTool \/ AnalyzeProjectHealthTool
    \/ Tick

(***************************************************************************)
(* The functions of data_handlers called directly.                         *)
(***************************************************************************)
ProjectInputs == {SampleProjects[1], [name |-> "Pilot"]}

RiskInputs ==
    {SampleRisks[1],
     [project_id |-> "p9999", name |-> "Vendor lock-in",
      category |-> "Strategic", probability |-> 40, impact |-> 50],
     [name |-> "Vendor lock-in", category |-> "Strategic",
      probability |-> 40, impact |-> 50]}

MarketInputs(w) ==
    {SampleMarketData(w)[4],
     [type |-> "security_alert", summary |-> "Patch released"]}

ReportInputs(w) ==
    {[id |-> "report-p1001-0", project_id |-> "p1001",
      timestamp |-> format_timestamp(w), overall_score |-> 20],
     [project_id |-> "p1001", overall_score |-> 30]}

GetEmbedding ==
    \E text \in QueryTexts, emb \in BOOLEAN :
        Done("get_embedding", <<text>>,
             get_embedding(World(NoFailure, 0, <<>>, emb), text))

StoreProjectData ==
    \E up \in UpChoices, emb \in BOOLEAN, rnd \in RandomChoices, project_data \in ProjectInputs :
        Done("store_project_data", <<project_data>>,
             store_project_data(World(up, rnd, <<>>, emb), project_data))

StoreRiskData ==
    \E up \in UpChoices, emb \in BOOLEAN, rnd \in RandomChoices, risk_data \in RiskInputs :
        Done("store_risk_data", <<risk_data>>,
             store_risk_data(World(up, rnd, <<>>, emb), risk_data))

StoreMarketData ==
    \E up \in UpChoices, emb \in BOOLEAN, rnd \in RandomChoices :
        \E market_data \in MarketInputs(World(up, rnd, <<>>, emb)) :
            Done("store_market_data", <<market_data>>,
                 store_market_data(World(up, rnd, <<>>, emb), market_data))

StoreReport ==
    \E up \in UpChoices, emb \in BOOLEAN, rnd \in RandomChoices :
        \E report_data \in ReportInputs(World(up, rnd, <<>>, emb)) :
            Done("store_report", <<report_data>>,
                 store_report(World(up, rnd, <<>>, emb), report_data))

QueryProjects ==
    \E query_text \in QueryTexts, limit \in Limits, up \in UpChoices :
        Done("query_projects", <<query_text, limit>>,
             query_projects(World(up, 0, <<>>, TRUE), query_text, limit))

QueryRisks ==
    \E query_text \in QueryTexts, project_id \in ProjectIds \cup {""},
       limit \in Limits, up \in UpChoices :
        Done("query_risks", <<query_text, project_id, limit>>,
             query_risks(World(up, 0, <<>>, TRUE), query_text, project_id,
                         limit))

GetProjectById ==
    \E project_id \in ProjectIds, up \in UpChoices :
        Done("get_project_by_id", <<project_id>>,
             get_project_by_id(World(up, 0, <<>>, TRUE), project_id))

GetProjectRisks ==
    \E project_id \in ProjectIds, up \in UpChoices :
        Done("get_project_risks", <<project_id>>,
             get_project_risks(World(up, 0, <<>>, TRUE), project_id))

GetRecentMarketData ==
    \E hours \in HoursBack, data_type \in DataTypes, up \in UpChoices :
        Done("get_recent_market_data", <<hours, data_type>>,
             get_recent_market_data(World(up, 0, <<>>, TRUE), hours, data_type))

GetProjectReports ==
    \E project_id \in ProjectIds, limit \in Limits, up \in UpChoices :
        Done("get_project_reports", <<project_id, limit>>,
             get_project_reports(World(up, 0, <<>>, TRUE), project_id, limit))

GetAllProjects ==
    \E up \in UpChoices :
        Done("get_all_projects", <<>>,
             get_all_projects(World(up, 0, <<>>, TRUE)))

CreateSampleData ==
    \E up \in UpChoices, emb \in BOOLEAN :
        Done("create_sample_data", <<>>,
             create_sample_data(World(up, 0, <<>>, emb)))

DataNext ==
    \/ StoreProjectData \/ StoreRiskData \/ StoreMarketData \/ StoreReport
    \/ QueryProjects \/ QueryRisks \/ GetProjectById \/ GetProjectRisks
    \/ GetRecentMarketData \/ GetProjectReports \/ GetAllProjects
    \/ CreateSampleData \/ GetEmbedding \/ AddRiskTool \/ Tick

(***************************************************************************)
(* The reports of a project: stores that hold reports, written by          *)
(* store_report at different times and not in the order of their times.    *)
(***************************************************************************)
MaxReports == 3

ReportScores == {14, 20, 25, 26}

ReportTimes == {10, 20, 30}

Report(project_id, timestamp, overall_score) ==
    [id |-> "report-" \o project_id \o "-" \o ToString(timestamp),
     project_id |-> project_id, timestamp |-> timestamp,
     overall_score |-> overall_score]

\* up to MaxReports reports of p1001 with different times, in any order
ShortHistories ==
    UNION {
        { h \in [1..n -> {Report("p1001", t, sc) :
                              t \in ReportTimes, sc \in ReportScores}] :
            \A i, j \in 1..n : i # j => h[i].timestamp # h[j].timestamp } :
        n \in 0..MaxReports }

\* more reports than TrendLimit: the oldest one, stored last, has a score
\* far from the others; a report of another project stands between them
LongHistory ==
    [i \in 1..(TrendLimit + 2) |->
        IF i = 3 THEN Report("p9999", 500, 90)
        ELSE IF i = TrendLimit + 2 THEN Report("p1001", 1, 80)
        ELSE Report("p1001", 100 + i, 20 + (i % 2))]

ReportHistories == ShortHistories \cup {LongHistory}

\* the store after store_report has stored the reports of the history
StoreOfHistory(history) ==
    StoreAll([FreshWorld EXCEPT !.vector_db = "chromadb"],
             "reports", history).w.chroma

ReportInit ==
    /\ use_pinecone = USE_PINECONE
    /\ pinecone = EmptyStore
    /\ vector_db \in {"None", "chromadb"}
    /\ chroma \in {StoreOfHistory(h) : h \in ReportHistories}
    /\ clock = 1000
    /\ calls = 0
    /\ ret = [op |-> "import", args |-> <<>>, raised |-> FALSE,
              value |-> PyNone, llm |-> <<>>, emb |-> TRUE]
    /\ ScoreIdle
    /\ AppIdle

ReportNext ==
    \/ AnalyzeRiskTrendsTool \/ GetProjectReportsTool \/ GetProjectReports
    \/ StoreReport

(***************************************************************************)
(* The market data of the last hours: stores that hold entries written by  *)
(* store_market_data now, exactly 24 hours ago and a second earlier, and   *)
(* entries without a timestamp.                                            *)
(***************************************************************************)
MaxMarketEntries == 2

\* the age of an entry in seconds; NoTimestamp for an entry without time
MarketAges == {0, 24 * SecondsPerHour, 24 * SecondsPerHour + 1, NoTimestamp}

MarketEntry(i, now, age, type) ==
    IF age = NoTimestamp
    THEN [id |-> "m" \o ToString(i), type |-> type]
    ELSE [id |-> "m" \o ToString(i), type |-> type, timestamp |-> now - age]

MarketHistories(now) ==
    UNION {
        { [i \in 1..n |-> MarketEntry(i, now, c[i].age, c[i].type)] :
            c \in [1..n -> [age : MarketAges,
                            type : {"security_alert", "industry_trend"}]] } :
        n \in 0..MaxMarketEntries }

MarketInit ==
    /\ use_pinecone = USE_PINECONE
    /\ pinecone = EmptyStore
    /\ vector_db \in {"None", "chromadb"}
    /\ clock = 48 * SecondsPerHour
    /\ chroma \in { StoreAll([FreshWorld EXCEPT !.vector_db = "chromadb"],
                              "market_data", h).w.chroma :
                       h \in MarketHistories(48 * SecondsPerHour) }
    /\ calls = 0
    /\ ret = [op |-> "import", args |-> <<>>, raised |-> FALSE,
              value |-> PyNone, llm |-> <<>>, emb |-> TRUE]
    /\ ScoreIdle
    /\ AppIdle

MarketNext ==
    \/ GetRecentMarketData \/ MarketDataTool \/ StoreMarketData \/ Tick

(***************************************************************************)
(* data_handlers.py with USE_PINECONE = True (config.py: "Set to True to   *)
(* use Pinecone instead of ChromaDB"): the "if USE_PINECONE" branches.     *)
(***************************************************************************)
\* reports of p1001 stored in the index, in any order of their times
PineconeHistories ==
    { h \in ShortHistories : \A i \in 1..Len(h) : h[i].overall_score = 20 }

IndexOfHistory(history) ==
    StoreAll([FreshWorld EXCEPT !.use_pinecone = TRUE,
                                !.vector_db = "pinecone"],
             "reports", history).w.pinecone

\* the order in which Pinecone answers for entries that are equally near
NearChoices == {"stored", "reverse"}

\* after the import: the index (Pinecone answered), the dictionary of the
\* ChromaDB collections (Pinecone failed, init_chromadb() did not), or None
\* (both failed)
PineconeInit ==
    /\ use_pinecone = TRUE
    /\ vector_db \in {"None", "chromadb", "pinecone"}
    /\ pinecone \in {IndexOfHistory(h) : h \in PineconeHistories}
    /\ chroma = EmptyStore
    /\ clock = 1000
    /\ calls = 0
    /\ ret = [op |-> "import", args |-> <<>>, raised |-> FALSE,
              value |-> PyNone, llm |-> <<>>, emb |-> TRUE]
    /\ ScoreIdle
    /\ AppIdle

\* the world of a call: whether ChromaDB (up) and Pinecone (pine) answer
PineconeWorld(up, rnd, pine, near) ==
    [World(up, rnd, <<>>, TRUE) EXCEPT !.pine = pine, !.near = near]

PineconeStoreProjectData ==
    \E up \in {NoFailure, 0}, pine \in BOOLEAN, project_data \in ProjectInputs :
        Done("store_project_data", <<project_data>>,
             store_project_data(PineconeWorld(up, 0, pine, "stored"),
                                project_data))

PineconeStoreRiskData ==
    \E up \in {NoFailure, 0}, pine \in BOOLEAN :
        Done("store_risk_data", <<SampleRisks[1]>>,
             store_risk_data(PineconeWorld(up, 0, pine, "stored"),
                             SampleRisks[1]))

PineconeStoreReport ==
    \E up \in {NoFailure, 0}, pine \in BOOLEAN :
        \E report_data \in ReportInputs(PineconeWorld(up, 0, pine, "stored")) :
            Done("store_report", <<report_data>>,
                 store_report(PineconeWorld(up, 0, pine, "stored"),
                              report_data))

PineconeQueryProjects ==
    \E query_text \in QueryTexts, limit \in Limits, up \in {NoFailure, 0},
       pine \in BOOLEAN, near \in NearChoices :
        Done("query_projects", <<query_text, limit>>,
             query_projects(PineconeWorld(up, 0, pine, near), query_text,
                            limit))

PineconeGetProjectById ==
    \E project_id \in ProjectIds, up \in {NoFailure, 0}, pine \in BOOLEAN :
        Done("get_project_by_id", <<project_id>>,
             get_project_by_id(PineconeWorld(up, 0, pine, "stored"),
                               project_id))

PineconeGetProjectRisks ==
    \E project_id \in ProjectIds, up \in {NoFailure, 0}, pine \in BOOLEAN,
       near \in NearChoices :
        Done("get_project_risks", <<project_id>>,
             get_project_risks(PineconeWorld(up, 0, pine, near), project_id))

PineconeGetProjectReports ==
    \E project_id \in ProjectIds, limit \in Limits \cup {2},
       up \in {NoFailure, 0}, pine \in BOOLEAN, near \in NearChoices :
        Done("get_project_reports", <<project_id, limit>>,
             get_project_reports(PineconeWorld(up, 0, pine, near), project_id,
                                 limit))

PineconeNext ==
    \/ PineconeStoreProjectData \/ PineconeStoreRiskData
    \/ PineconeStoreReport \/ PineconeQueryProjects
    \/ PineconeGetProjectById \/ PineconeGetProjectRisks
    \/ PineconeGetProjectReports

(***************************************************************************)
(* agents.py: the crew and the chain of tasks of one query. An agent is    *)
(* the record of its role; a function that can raise returns               *)
(* [raised, value] (the message of the exception where it raised).         *)
(***************************************************************************)
Agent(role) == [role |-> role]

create_project_risk_manager == Agent("Project Risk Manager")

create_market_analysis_agent == Agent("Market Analysis Agent")

create_risk_scoring_agent == Agent("Risk Scoring Agent")

create_project_status_tracking_agent == Agent("Project Status Tracking Agent")

create_reporting_agent == Agent("Reporting Agent")

\* Crew(agents=[...], tasks=[], process=Process.sequential)
initialize_crew ==
    [agents |-> << create_project_risk_manager, create_market_analysis_agent,
                   create_risk_scoring_agent,
                   create_project_status_tracking_agent,
                   create_reporting_agent >>,
     tasks |-> <<>>,
     process |-> "sequential"]

\* the task factories get_project_risk_assessment imports from tasks: a
\* Task of the agent for the query and the project, with its context
Task(name, agent, user_query, selected_project, context) ==
    [name |-> name, agent |-> agent, user_query |-> user_query,
     selected_project |-> selected_project, context |-> context]

create_analyze_market_conditions_task(agent, user_query, selected_project) ==
    Task("market analysis", agent, user_query, selected_project, <<>>)

create_assess_project_status_task(agent, user_query, selected_project) ==
    Task("project status", agent, user_query, selected_project, <<>>)

create_score_project_risks_task(agent, user_query, selected_project, context) ==
    Task("risk scoring", agent, user_query, selected_project, context)

create_generate_risk_assessment_task(agent, user_query, selected_project, context) ==
    Task("risk assessment", agent, user_query, selected_project, context)

create_generate_risk_report_task(agent, user_query, selected_project, context) ==
    Task("reporting", agent, user_query, selected_project, context)

\* the five tasks of one query, in the order they are handed to the crew
\* (crew.agents[k] of the code is agents[k + 1] here)
TasksOfQuery(agents, user_query, selected_project) ==
    LET market_analysis_task ==
            create_analyze_market_conditions_task(agents[2], user_query,
                                                  selected_project)
        project_status_task ==
            create_assess_project_status_task(agents[4], user_query,
                                              selected_project)
        risk_scoring_task ==
            create_score_project_risks_task(agents[3], user_query,
                selected_project,
                <<market_analysis_task, project_status_task>>)
        risk_assessment_task ==
            create_generate_risk_assessment_task(agents[1], user_query,
                selected_project,
                <<market_analysis_task, project_status_task,
                  risk_scoring_task>>)
        reporting_task ==
            create_generate_risk_report_task(agents[5], user_query,
                selected_project, <<risk_assessment_task>>)
    IN  << market_analysis_task, project_status_task, risk_scoring_task,
           risk_assessment_task, reporting_task >>

\* get_project_risk_assessment with "crew.tasks = []" left out and the new
\* tasks added to the ones the crew holds
get_project_risk_assessment_adding(crew, user_query, selected_project, kickoff) ==
    [crew   |-> [crew EXCEPT !.tasks =
                    @ \o TasksOfQuery(crew.agents, user_query,
                                      selected_project)],
     raised |-> "error" \in DOMAIN kickoff,
     value  |-> IF "error" \in DOMAIN kickoff THEN kickoff.error
                ELSE kickoff.text]

\* get_project_risk_assessment(crew, user_query, selected_project); kickoff
\* is the outcome of crew.kickoff(): the text of the final report, or the
\* exception it raises; crew is the crew as the call leaves it
get_project_risk_assessment(crew, user_query, selected_project, kickoff) ==
    [crew   |-> [crew EXCEPT !.tasks =
                    TasksOfQuery(crew.agents, user_query, selected_project)],
     raised |-> "error" \in DOMAIN kickoff,
     value  |-> IF "error" \in DOMAIN kickoff THEN kickoff.error
                ELSE kickoff.text]

(***************************************************************************)
(* main.py: the session state and the chat tab. The script runs once when  *)
(* a session opens and once for each chat submission of the session.       *)
(***************************************************************************)
MaxTurns == 2

UserInputs == {"What are the top risks?", "Is the budget at risk?"}

SelectedProjects == {"All Projects", "Cloud Migration"}

KickoffOutcomes ==
    {[text |-> "Final risk report"], [error |-> "Connection refused"]}

\* load_chat_history(): the chat turns of the file, read wholesale
load_chat_history == chat_file

\* save_chat_history(history): the file is written wholesale
save_chat_history(history) == chat_file' = history

\* the first run of the script in a session: "if ... not in st.session_state"
OpenSession(s) ==
    \E crew \in {initialize_crew, PyNone} :
        /\ session_state[s] = NoSession
        /\ session_state' = [session_state EXCEPT ![s] =
                [chat_history |-> load_chat_history, crew |-> crew]]
        /\ UNCHANGED <<chat_file, cache, cache_log, threads, scoreVars, toolVars>>

Message(role, content) == [role |-> role, content |-> content]

\* the chat tab without its try: an exception of the assessment ends the
\* run of the script after the user message
ChatTab_uncaught(state, user_input, selected_project, kickoff) ==
    LET assessment ==
            get_project_risk_assessment(state.crew, user_input,
                                        selected_project, kickoff)
        response ==
            IF state.crew = PyNone
            THEN "I'm having trouble connecting to the risk analysis system. Please try again later."
            ELSE assessment.value
    IN  [chat_history |->
            IF state.crew # PyNone /\ assessment.raised
            THEN Append(state.chat_history, Message("user", user_input))
            ELSE state.chat_history \o << Message("user", user_input),
                                          Message("assistant", response) >>,
         crew |-> IF state.crew = PyNone THEN PyNone ELSE assessment.crew]

\* the chat tab for a user_input: the session state it leaves
ChatTab(state, user_input, selected_project, kickoff) ==
    LET assessment ==
            get_project_risk_assessment(state.crew, user_input,
                                        selected_project, kickoff)
        response ==
            IF state.crew = PyNone
            THEN "I'm having trouble connecting to the risk analysis system. Please try again later."
            ELSE IF assessment.raised
            THEN "I encountered an error while analyzing your request: "
                    \o assessment.value
            ELSE assessment.value
    IN  [chat_history |->
            state.chat_history \o << Message("user", user_input),
                                     Message("assistant", response) >>,
         crew |-> IF state.crew = PyNone THEN PyNone ELSE assessment.crew]

\* a chat submission in the session s: the run of the script that handles it
ChatSubmit(s) ==
    \E user_input \in UserInputs, selected_project \in SelectedProjects,
       kickoff \in KickoffOutcomes :
        /\ session_state[s] # NoSession
        /\ Len(session_state[s].chat_history) < 2 * MaxTurns
        /\ session_state' = [session_state EXCEPT ![s] =
                ChatTab(@, user_input, selected_project, kickoff)]
        /\ save_chat_history(session_state'[s].chat_history)
        /\ UNCHANGED <<cache, cache_log, threads, scoreVars, toolVars>>

ChatInit ==
    /\ ScoreIdle
    /\ ToolIdle
    /\ AppIdle

ChatNext == \E s \in Sessions : OpenSession(s) \/ ChatSubmit(s)

(***************************************************************************)
(* utils.py: the cache. A dict is a function on its keys; time.time() is   *)
(* the clock.                                                              *)
(***************************************************************************)
CACHE_TTL == 3600

MaxCacheCalls == 4

CacheKeys == {"projects", "market"}

\* the data cached are dicts
CacheData == {[rows |-> 1], [rows |-> 2]}

TimeToLive == {0, 1, CACHE_TTL}

\* get_cached_data that takes an entry whose age is ttl for expired
get_cached_data_early(c, now, key, ttl) ==
    IF key \notin DOMAIN c.data \/ key \notin DOMAIN c.last_update
    THEN PyNone
    ELSE IF now - c.last_update[key] >= ttl THEN PyNone
    ELSE c.data[key]

\* get_cached_data(key, ttl) on the cache c at the time now
get_cached_data(c, now, key, ttl) ==
    IF key \notin DOMAIN c.data \/ key \notin DOMAIN c.last_update
    THEN PyNone
    ELSE IF now - c.last_update[key] > ttl THEN PyNone
    ELSE c.data[key]

\* cache["data"][key] = data
write_data(c, key, data) == [c EXCEPT !.data = DictSet(@, key, data)]

\* cache["last_update"][key] = time.time()
write_last_update(c, now, key) ==
    [c EXCEPT !.last_update = DictSet(@, key, now)]

\* set_cached_data that starts from an empty cache
set_cached_data_afresh(c, now, key, data) ==
    write_last_update(write_data(setup_cache, key, data), now, key)

\* set_cached_data(key, data) on the cache c at the time now, run without
\* interruption: the cache it leaves
set_cached_data(c, now, key, data) ==
    write_last_update(write_data(c, key, data), now, key)

GetCachedData ==
    \E key \in CacheKeys, ttl \in TimeToLive :
        /\ calls < MaxCacheCalls
        /\ calls' = calls + 1
        /\ ret' = [op |-> "get_cached_data", args |-> <<key, ttl>>,
                   raised |-> FALSE,
                   value |-> get_cached_data(cache, time_time([clock |-> clock]),
                                             key, ttl),
                   llm |-> <<>>, emb |-> TRUE]
        /\ UNCHANGED <<cache, cache_log, threads, clock, use_pinecone,
                       vector_db, pinecone, chroma, session_state, chat_file,
                       scoreVars>>

SetCachedData ==
    \E key \in CacheKeys, data \in CacheData :
        /\ calls < MaxCacheCalls
        /\ calls' = calls + 1
        /\ cache' = set_cached_data(cache, time_time([clock |-> clock]),
                                    key, data)
        /\ cache_log' = Append(cache_log,
                               [key |-> key, data |-> data, time |-> clock])
        /\ ret' = [op |-> "set_cached_data", args |-> <<key, data>>,
                   raised |-> FALSE, value |-> PyNone,
                   llm |-> <<>>, emb |-> TRUE]
        /\ UNCHANGED <<clock, use_pinecone, vector_db, pinecone, chroma,
                       session_state, chat_file, threads, scoreVars>>

\* time passes between two calls: a second, or CACHE_TTL seconds
Sleep ==
    \E d \in {1, CACHE_TTL} :
        /\ calls < MaxCacheCalls
        /\ calls' = calls + 1
        /\ clock' = clock + d
        /\ UNCHANGED <<use_pinecone, vector_db, pinecone, chroma, ret,
                       scoreVars, appVars>>

CacheNext == GetCachedData \/ SetCachedData \/ Sleep

(***************************************************************************)
(* utils.py: the cache used by several threads. Nothing guards the dict,   *)
(* so a thread may be suspended between two statements of a function and   *)
(* another thread run: set_cached_data is its two assignments, and         *)
(* get_cached_data is its checks of the key and of its age, then the read  *)
(* of the value it returns.                                                *)
(***************************************************************************)
MaxThreadCalls == 6

\* the checks of get_cached_data pass: the key is in both dicts and its
\* age is at most ttl
is_fresh(c, now, key, ttl) ==
    /\ key \in DOMAIN c.data
    /\ key \in DOMAIN c.last_update
    /\ ~(now - c.last_update[key] > ttl)

\* set_cached_data that writes the value and the time in one step
SetData_atomic(t) ==
    \E key \in CacheKeys, data \in CacheData :
        /\ calls < MaxThreadCalls
        /\ threads[t] = NoCall
        /\ calls' = calls + 1
        /\ cache' = set_cached_data(cache, time_time([clock |-> clock]),
                                    key, data)
        /\ cache_log' = Append(cache_log,
                               [key |-> key, data |-> data, time |-> clock])
        /\ ret' = [op |-> "set_cached_data", args |-> <<key, data>>,
                   raised |-> FALSE, value |-> PyNone,
                   llm |-> <<>>, emb |-> TRUE]
        /\ UNCHANGED <<threads, clock, use_pinecone, vector_db, pinecone,
                       chroma, session_state, chat_file, scoreVars>>

\* thread t enters set_cached_data(key, data) and executes its first
\* statement
SetData(t) ==
    \E key \in CacheKeys, data \in CacheData :
        /\ calls < MaxThreadCalls
        /\ threads[t] = NoCall
        /\ calls' = calls + 1
        /\ cache' = write_data(cache, key, data)
        /\ threads' = [threads EXCEPT
                          ![t] = [pc |-> "last_update", key |-> key,
                                  data |-> data]]
        /\ UNCHANGED <<cache_log, ret, clock, use_pinecone, vector_db,
                       pinecone, chroma, session_state, chat_file, scoreVars>>

\* thread t executes the second statement of set_cached_data and returns
SetLastUpdate(t) ==
    /\ calls < MaxThreadCalls
    /\ threads[t].pc = "last_update"
    /\ calls' = calls + 1
    /\ cache' = write_last_update(cache, time_time([clock |-> clock]),
                                  threads[t].key)
    /\ cache_log' = Append(cache_log,
                           [key |-> threads[t].key, data |-> threads[t].data,
                            time |-> clock])
    /\ threads' = [threads EXCEPT ![t] = NoCall]
    /\ ret' = [op |-> "set_cached_data",
               args |-> <<threads[t].key, threads[t].data>>,
               raised |-> FALSE, value |-> PyNone, llm |-> <<>>, emb |-> TRUE]
    /\ UNCHANGED <<clock, use_pinecone, vector_db, pinecone, chroma,
                   session_state, chat_file, scoreVars>>

\* thread t enters get_cached_data(key, ttl) and executes its checks: it
\* returns None, or goes on to the read of the value
GetCheck(t) ==
    \E key \in CacheKeys, ttl \in TimeToLive :
        /\ calls < MaxThreadCalls
        /\ threads[t] = NoCall
        /\ calls' = calls + 1
        /\ IF is_fresh(cache, time_time([clock |-> clock]), key, ttl)
           THEN /\ threads' = [threads EXCEPT
                                 ![t] = [pc |-> "return", key |-> key,
                                         ttl |-> ttl]]
                /\ ret' = ret
           ELSE /\ threads' = threads
                /\ ret' = [op |-> "get_cached_data", args |-> <<key, ttl>>,
                           raised |-> FALSE, value |-> PyNone,
                           llm |-> <<>>, emb |-> TRUE]
        /\ UNCHANGED <<cache, cache_log, clock, use_pinecone, vector_db,
                       pinecone, chroma, session_state, chat_file, scoreVars>>

\* thread t executes the return statement of get_cached_data
GetReturn(t) ==
    /\ calls < MaxThreadCalls
    /\ threads[t].pc = "return"
    /\ calls' = calls + 1
    /\ threads' = [threads EXCEPT ![t] = NoCall]
    /\ ret' = [op |-> "get_cached_data",
               args |-> <<threads[t].key, threads[t].ttl>>,
               raised |-> FALSE, value |-> cache.data[threads[t].key],
               llm |-> <<>>, emb |-> TRUE]
    /\ UNCHANGED <<cache, cache_log, clock, use_pinecone, vector_db, pinecone,
                   chroma, session_state, chat_file, scoreVars>>

ThreadNext ==
    \/ \E t \in Threads :
           SetData(t) \/ SetLastUpdate(t) \/ GetCheck(t) \/ GetReturn(t)
    \/ Sleep

(***************************************************************************)
(* The inputs of ScoreSpec and LevelSpec                                    *)
(***************************************************************************)
MaxRisks == 3
MaxCopies == 6
ScoreMargin == 10

\* every list of at most MaxRisks risks, and every risk repeated up to
\* MaxCopies times
RiskLists ==
    UNION {[1..n -> RiskDomain] : n \in 0..MaxRisks}
    \cup {[i \in 1..n |-> r] : r \in RiskDomain, n \in 0..MaxCopies}

ScoreInputs == (0 - ScoreMargin)..(100 + ScoreMargin)

Swap(rs, i, j) ==
    [k \in 1..Len(rs) |-> IF k = i THEN rs[j] ELSE IF k = j THEN rs[i] ELSE rs[k]]

(***************************************************************************)
(* ScoreSpec: calculate_risk_score and get_risk_level applied to every     *)
(* list of RiskLists, and the list reordered (a swap of two positions:     *)
(* every permutation is a product of swaps, and every list is an input).   *)
(***************************************************************************)
ScoreInit ==
    /\ risks \in RiskLists
    /\ score = NoValue
    /\ level = NoValue
    /\ prev_score = NoValue
    /\ prev_level = NoValue
    /\ pc = "input"
    /\ ToolIdle
    /\ AppIdle

CalculateRiskScore ==
    /\ pc = "input"
    /\ score' = calculate_risk_score(risks)
    /\ pc' = "calculate_risk_score"
    /\ UNCHANGED <<risks, level, prev_score, prev_level, toolVars, appVars>>

GetRiskLevel ==
    /\ pc \in {"calculate_risk_score", "reorder", "score"}
    /\ level' = get_risk_level(score)
    /\ pc' = "get_risk_level"
    /\ UNCHANGED <<risks, score, prev_score, prev_level, toolVars, appVars>>

Reorder ==
    \E i \in 1..Len(risks), j \in 1..Len(risks) :
        /\ i < j
        /\ pc # "input"
        /\ risks' = Swap(risks, i, j)
        /\ prev_score' = score
        /\ score' = calculate_risk_score(risks')
        /\ level' = NoValue
        /\ pc' = "reorder"
        /\ UNCHANGED <<prev_level, toolVars, appVars>>

ScoreNext == CalculateRiskScore \/ GetRiskLevel \/ Reorder

(***************************************************************************)
(* LevelSpec: get_risk_level applied to every score of ScoreInputs, one    *)
(* call after the other.                                                   *)
(***************************************************************************)
LevelInit ==
    /\ risks = <<>>
    /\ score \in ScoreInputs
    /\ level = NoValue
    /\ prev_score = NoValue
    /\ prev_level = NoValue
    /\ pc = "score"
    /\ ToolIdle
    /\ AppIdle

NextScore ==
    \E s \in ScoreInputs :
        /\ pc = "get_risk_level"
        /\ prev_score' = score
        /\ prev_level' = level
        /\ score' = s
        /\ level' = get_risk_level(s)
        /\ pc' = "get_risk_level"
        /\ UNCHANGED <<risks, toolVars, appVars>>

LevelNext == GetRiskLevel \/ NextScore

vars == <<scoreVars, toolVars, appVars>>

ScoreSpec == ScoreInit /\ [][ScoreNext]_vars

LevelSpec == LevelInit /\ [][LevelNext]_vars

ToolSpec == ToolInit /\ [][ToolNext]_vars

DataSpec == ToolInit /\ [][DataNext]_vars

ChatSpec == ChatInit /\ [][ChatNext]_vars

CacheSpec == ChatInit /\ [][CacheNext]_vars

ThreadSpec == ChatInit /\ [][ThreadNext]_vars

ReportSpec == ReportInit /\ [][ReportNext]_vars

PineconeSpec == PineconeInit /\ [][PineconeNext]_vars

MarketSpec == MarketInit /\ [][MarketNext]_vars

(***************************************************************************)
(* Claims about the risk score and the risk level                          *)
(***************************************************************************)
\* The levels in ascending order (the order of the enum and of the
\* thresholds), and the place of a level in it.
LevelOrder == <<RiskLevel.LOW, RiskLevel.MEDIUM, RiskLevel.HIGH, RiskLevel.CRITICAL>>

Rank(l) == CHOOSE i \in 1..Len(LevelOrder) : LevelOrder[i] = l

\* the first of the first n levels whose configured threshold is >= s
FirstFit(s, n) ==
    LET fits == {i \in 1..n : RISK_SCORE_THRESHOLDS[LevelOrder[i]] >= s}
    IN  IF fits = {} THEN NoValue
        ELSE LevelOrder[CHOOSE i \in fits : \A j \in fits : i <= j]

\* The integers nearest to t/unit: one, or two when t/unit is a tie.
NearestInts(t, unit) ==
    LET lo  == t \div unit
        rem == t - lo * unit
    IN  IF 2 * rem < unit THEN {lo}
        ELSE IF 2 * rem > unit THEN {lo + 1}
        ELSE {lo, lo + 1}

InUnitRange(c) == 0 <= c /\ c <= 100

AllInUnitRange(rs) ==
    \A k \in 1..Len(rs) :
        /\ InUnitRange(DictGet(rs[k], "probability", 0))
        /\ InUnitRange(DictGet(rs[k], "impact", 0))

\* The sum of probability * impact * weight over the list, in 1/10000,
\* the values taken as they are.
RECURSIVE PlainSum(_, _)
PlainSum(rs, n) ==
    IF n = 0 THEN 0
    ELSE PlainSum(rs, n - 1)
         + DictGet(rs[n], "probability", 0) * DictGet(rs[n], "impact", 0)
           * DictGet(RISK_IMPACT_WEIGHTS, DictGet(rs[n], "category", ""), 1)

\* A value in hundredths as the claim says it is used: a hundredth of it
\* when it is above 1 (the values above 1 of RiskDomain are whole numbers).
UsedValue(c) == IF c > 100 THEN c \div 100 ELSE c

RECURSIVE UsedSum(_, _)
UsedSum(rs, n) ==
    IF n = 0 THEN 0
    ELSE UsedSum(rs, n - 1)
         + UsedValue(DictGet(rs[n], "probability", 0))
           * UsedValue(DictGet(rs[n], "impact", 0))
           * DictGet(RISK_IMPACT_WEIGHTS, DictGet(rs[n], "category", ""), 1)

\* C1: for every list of risks, negative values and values above 1
\* included, calculate_risk_score returns a value in 0..100.
C1_ScoreInRange == pc # "input" => score \in 0..100

\* C2: get_risk_level is monotonic non-decreasing in the score
\* (Low < Medium < High < Critical) and gives every score one level, with
\* inclusive upper boundaries: 25 is Low and 26 Medium, 50 Medium and
\* 51 High, 75 High and 76 Critical.
C2_LevelMonotonicInclusive ==
    /\ (level # NoValue /\ prev_level # NoValue /\ prev_score <= score)
           => Rank(prev_level) <= Rank(level)
    /\ level # NoValue =>
           /\ Cardinality({i \in 1..Len(LevelOrder) : LevelOrder[i] = level}) = 1
           /\ score = 25 => level = "low"
           /\ score = 26 => level = "medium"
           /\ score = 50 => level = "medium"
           /\ score = 51 => level = "high"
           /\ score = 75 => level = "high"
           /\ score = 76 => level = "critical"

C2_Witness ==
    /\ prev_level = "low" /\ prev_score = 25
    /\ level = "medium" /\ score = 26

\* C3 as stated: get_risk_level(score) is the first level, in ascending
\* order of the four configured thresholds, whose threshold is >= score,
\* it is Critical above 75, and every configured threshold, the one of
\* Critical included, is the boundary of its level.
C3_FirstFitOfAllThresholds ==
    level # NoValue =>
        /\ level = FirstFit(score, Len(LevelOrder))
        /\ score > 75 => level = "critical"
        /\ \A i \in 1..Len(LevelOrder) :
               /\ score = RISK_SCORE_THRESHOLDS[LevelOrder[i]] => level = LevelOrder[i]
               /\ score = RISK_SCORE_THRESHOLDS[LevelOrder[i]] + 1 => level # LevelOrder[i]

\* C3 as amended: get_risk_level(score) is the first of Low, Medium and
\* High, in ascending order of their configured thresholds, whose
\* threshold is >= score, and Critical for every score above 75; the
\* thresholds of Low, Medium and High are the boundaries of their levels,
\* and the threshold configured for Critical (90) is no boundary: 90 and
\* 91 are both Critical.
C3_FirstFitOfThreeThresholds ==
    level # NoValue =>
        /\ level = IF FirstFit(score, 3) # NoValue THEN FirstFit(score, 3)
                   ELSE "critical"
        /\ score > 75 => level = "critical"
        /\ \A i \in 1..3 :
               /\ score = RISK_SCORE_THRESHOLDS[LevelOrder[i]] => level = LevelOrder[i]
               /\ score = RISK_SCORE_THRESHOLDS[LevelOrder[i]] + 1 => level # LevelOrder[i]
        /\ score \in {RISK_SCORE_THRESHOLDS["critical"],
                      RISK_SCORE_THRESHOLDS["critical"] + 1} => level = "critical"

C3_Witness == level = "critical" /\ score = 91

\* C4: a list and a reordering of it get the same score from
\* calculate_risk_score.
C4_ReorderKeepsScore == pc = "reorder" => score = prev_score

\* C5: calculate_risk_score of the empty list is 0, and get_risk_level of
\* that score is Low.
C5_EmptyListIsZeroAndLow ==
    (risks = <<>> /\ pc # "input") =>
        /\ score = 0
        /\ level # NoValue => level = "low"

C5_Witness == risks = <<>> /\ level = "low" /\ score = 0

C7_ValuesAboveOneAreHundredths ==
    pc # "input" =>
        \E r \in NearestInts(UsedSum(risks, Len(risks)), 10000) :
            score = Min(100, r)

C7_Witness ==
    /\ risks = <<[probability |-> 9000, impact |-> 50, category |-> "Financial"]>>
    /\ pc # "input"
    /\ score = 11

(***************************************************************************)
(* Claims about the tools and about the accessors of data_handlers         *)
(***************************************************************************)
ToolNames ==
    {"ProjectInfoTool", "ListProjectsTool", "SearchProjectsTool",
     "ProjectRisksTool", "CalculateRiskScoreTool", "MarketDataTool",
     "AddRiskTool", "UpdateRiskTool", "GenerateRiskReportTool",
     "GetProjectReportsTool", "FetchMarketNewsTool", "AnalyzeRiskTrendsTool",
     "GenerateMitigationStrategiesTool", "IdentifyExternalRisksTool",
     "CreateSampleDataTool", "AnalyzeProjectHealthTool"}

\* the messages of the exceptions of a failed LLM call and of a failed
\* vector-database call
FailureMessages ==
    {LLMFailure.error, "Failed to initialize ChromaDB"}
    \cup {"Failed to store " \o name : name \in DOMAIN EmptyStore}

\* C8: no tool operation lets the exception of a failed LLM call or of a
\* failed vector-database call reach its caller: each returns a value.
C8_ToolsNeverPropagate ==
    (ret.op \in ToolNames /\ ret.raised) => ret.value \notin FailureMessages

ReadAccessors ==
    {"query_projects", "query_risks", "get_project_by_id", "get_project_risks",
     "get_recent_market_data", "get_project_reports", "get_all_projects"}

\* C9: a read accessor of data_handlers never raises, whatever the vector
\* database does, its lazy initialization included: it returns its default.
C9_ReadAccessorsNeverRaise == ret.op \in ReadAccessors => ~ret.raised

JsonTools ==
    {"FetchMarketNewsTool", "IdentifyExternalRisksTool",
     "AnalyzeProjectHealthTool"}

\* the LLM has answered the call r with a text that is not JSON
GotInvalidJson(r) == r.llm # <<>> /\ r.llm[1] = [text |-> TextProse]

\* C10: when the LLM output is not valid JSON, FetchMarketNewsTool,
\* IdentifyExternalRisksTool and AnalyzeProjectHealthTool return a dict with
\* an "error" message and with "raw_output" equal to the LLM text, and the
\* call leaves the vector store as it was.
C10_InvalidJsonReturnedRawNothingStored ==
    [][(ret'.op \in JsonTools /\ GotInvalidJson(ret')) =>
          /\ chroma' = chroma
          /\ ~ret'.raised
          /\ {"error", "raw_output"} \subseteq DOMAIN ret'.value
          /\ ret'.value.raw_output = ret'.llm[1].text]_vars

C10_Witness ==
    /\ ret.op = "IdentifyExternalRisksTool"
    /\ ret.args = <<"p1001">>
    /\ GotInvalidJson(ret)
    /\ ret.value.raw_output = TextProse
    /\ chroma = SampleStore


(***************************************************************************)
(* C11: the embedding call fails                                           *)
(***************************************************************************)
StoreOps ==
    [store_project_data |-> "projects", store_risk_data |-> "risks",
     store_market_data |-> "market_data", store_report |-> "reports"]

\* the entries of the collection `name` stored under id
EntriesOf(name, id) == SelectSeq(chroma[name], LAMBDA e : e.id = id)

\* the call r was made while the embeddings API was failing
EmbeddingFailed(r) == ~r.emb

\* C11: when the embedding call fails, get_embedding returns a vector of
\* exactly 1536 zeros instead of raising, and a store operation does not
\* raise for it: where the database works it has upserted the record under
\* its id (the given one, if any) with that vector and returned the id.
C11_ZeroVectorOnEmbeddingFailure ==
    /\ (ret.op = "get_embedding" /\ EmbeddingFailed(ret)) =>
            /\ ~ret.raised
            /\ Len(ret.value) = 1536
            /\ \A i \in 1..1536 : ret.value[i] = 0
    /\ (ret.op \in DOMAIN StoreOps /\ EmbeddingFailed(ret)) =>
            IF ret.raised
            THEN ret.value \in {"Failed to initialize ChromaDB",
                                "Failed to store " \o StoreOps[ret.op]}
            ELSE /\ "id" \in DOMAIN ret.args[1] => ret.value = ret.args[1].id
                 /\ Len(EntriesOf(StoreOps[ret.op], ret.value)) = 1
                 /\ EntriesOf(StoreOps[ret.op], ret.value)[1].embedding
                        = [dim |-> 1536, zero |-> TRUE]
                 /\ EntriesOf(StoreOps[ret.op], ret.value)[1].metadata
                        = ret.args[1]

C11_Witness ==
    /\ ret.op = "store_risk_data"
    /\ EmbeddingFailed(ret)
    /\ ~ret.raised
    /\ "id" \notin DOMAIN ret.args[1]
    /\ EntriesOf("risks", ret.value) # <<>>
    /\ EntriesOf("risks", ret.value)[1].embedding.zero

(***************************************************************************)
(* C12: the chat history of a session and the saved one                    *)
(***************************************************************************)
\* this step is a chat submission of the session s
Submitted(s) ==
    /\ session_state[s] # NoSession
    /\ session_state'[s] # session_state[s]

\* seq is `before` with exactly a user message and then an assistant
\* message appended
ExtendedByOneTurn(before, seq) ==
    /\ Len(seq) = Len(before) + 2
    /\ SubSeq(seq, 1, Len(before)) = before
    /\ seq[Len(seq) - 1].role = "user"
    /\ seq[Len(seq)].role = "assistant"

\* C12: each chat submission appends exactly one user message and then one
\* assistant message to the session chat history and saves the whole
\* history; the saved history equals the session history, keeps its
\* earlier messages as they were and grows by 2 per submission.
C12_SubmissionExtendsSavedHistory ==
    [][\A s \in Sessions :
        Submitted(s) =>
            /\ ExtendedByOneTurn(session_state[s].chat_history,
                                 session_state'[s].chat_history)
            /\ chat_file' = session_state'[s].chat_history
            /\ ExtendedByOneTurn(chat_file, chat_file')]_vars

(***************************************************************************)
(* C13: the chain of tasks of get_project_risk_assessment                  *)
(***************************************************************************)
ChainOrder ==
    << [name |-> "market analysis", role |-> "Market Analysis Agent"],
       [name |-> "project status", role |-> "Project Status Tracking Agent"],
       [name |-> "risk scoring", role |-> "Risk Scoring Agent"],
       [name |-> "risk assessment", role |-> "Project Risk Manager"],
       [name |-> "reporting", role |-> "Reporting Agent"] >>

\* tasks is the chain of the five tasks, each with its agent and with a
\* context of tasks that stand earlier in the list
IsFixedChain(tasks) ==
    /\ Len(tasks) = 5
    /\ \A i \in 1..5 :
        /\ tasks[i].name = ChainOrder[i].name
        /\ tasks[i].agent.role = ChainOrder[i].role
        /\ \A c \in 1..Len(tasks[i].context) :
              \E j \in 1..(i - 1) : tasks[j] = tasks[i].context[c]

\* C13: every call of get_project_risk_assessment leaves the crew with
\* exactly the five tasks market analysis, project status, risk scoring,
\* risk assessment, reporting, each with its agent and with a context of
\* earlier tasks only, whatever tasks the crew held before the call.
C13_FixedSequentialChain ==
    [][\A s \in Sessions :
        (Submitted(s) /\ session_state[s].crew # PyNone) =>
            IsFixedChain(session_state'[s].crew.tasks)]_vars

C13_Witness ==
    \E s \in Sessions :
        /\ session_state[s] # NoSession
        /\ session_state[s].crew # PyNone
        /\ Len(session_state[s].chat_history) = 4
        /\ session_state[s].chat_history[1].content
              # session_state[s].chat_history[3].content
        /\ IsFixedChain(session_state[s].crew.tasks)
        /\ session_state[s].crew.tasks[5].user_query
              = session_state[s].chat_history[3].content

(***************************************************************************)
(* C14: the cache                                                          *)
(***************************************************************************)
\* the calls of set_cached_data for the key so far, oldest first
SetsOf(key) == SelectSeq(cache_log, LAMBDA e : e.key = key)

\* this step is a call of get_cached_data
IsGet ==
    /\ ret'.op = "get_cached_data"
    /\ calls' = calls + 1
    /\ clock' = clock
    /\ cache_log' = cache_log

\* C14: get_cached_data(key, ttl) returns None when the key was never set
\* or more than ttl seconds have passed since its last set_cached_data,
\* and otherwise (also at an age of exactly ttl) the value of that last
\* set_cached_data; it never changes the cache.
C14_CacheHonoursTimeToLive ==
    [][IsGet =>
        LET key  == ret'.args[1]
            ttl  == ret'.args[2]
            sets == SetsOf(key)
            last == sets[Len(sets)]
        IN  /\ cache' = cache
            /\ ret'.value = IF sets = <<>> THEN PyNone
                            ELSE IF clock - last.time > ttl THEN PyNone
                            ELSE last.data]_vars

\* a key set twice is read at an age of exactly ttl
C14_Witness ==
    /\ ret.op = "get_cached_data"
    /\ Len(SetsOf(ret.args[1])) = 2
    /\ SetsOf(ret.args[1])[1].data # SetsOf(ret.args[1])[2].data
    /\ ret.args[2] > 0
    /\ clock - SetsOf(ret.args[1])[2].time = ret.args[2]
    /\ ret.value = SetsOf(ret.args[1])[2].data

(***************************************************************************)
(* C15: risks and the projects they name                                   *)
(***************************************************************************)
DatabaseFailures ==
    {"Failed to initialize ChromaDB", "Failed to store risks"}

\* the ids of the stored projects
StoredProjects == {chroma.projects[i].id : i \in 1..Len(chroma.projects)}

\* the JSON text is a dict with all the fields AddRiskTool requires
HasRequiredFields(text) ==
    /\ json_loads(text).ok
    /\ json_loads(text).kind = "dict"
    /\ \A i \in 1..Len(required_fields) :
            required_fields[i] \in DOMAIN json_loads(text).value

\* C15: no referential integrity between risks and projects. Whether or
\* not the project exists, store_risk_data stores the risk it is given
\* unchanged (it fails for the database only), a risk without project_id
\* gets the placeholder "unknown" in its text only, and AddRiskTool
\* stores every risk that carries the required fields under the
\* project_id it names.
C15_NoReferentialIntegrity ==
    /\ ret.op = "store_risk_data" =>
        IF ret.raised THEN ret.value \in DatabaseFailures
        ELSE /\ Len(EntriesOf("risks", ret.value)) = 1
             /\ EntriesOf("risks", ret.value)[1].metadata = ret.args[1]
             /\ "project_id" \notin DOMAIN ret.args[1] =>
                    EntriesOf("risks", ret.value)[1].document
                        = "Risk: " \o ret.args[1].name \o " (ID: "
                            \o ret.value \o ") for Project ID unknown. "
    /\ (ret.op = "AddRiskTool" /\ HasRequiredFields(ret.args[1])) =>
        IF "error" \in DOMAIN ret.value
        THEN ret.value.error
                \in {"Failed to add risk: " \o m : m \in DatabaseFailures}
        ELSE /\ Len(EntriesOf("risks", ret.value.risk_id)) = 1
             /\ EntriesOf("risks", ret.value.risk_id)[1].metadata.project_id
                    = json_loads(ret.args[1]).value.project_id

\* AddRiskTool has stored a risk for a project that is not stored
C15_Witness ==
    /\ ret.op = "AddRiskTool"
    /\ "risk_id" \in DOMAIN ret.value
    /\ EntriesOf("risks", ret.value.risk_id) # <<>>
    /\ EntriesOf("risks", ret.value.risk_id)[1].metadata.project_id
            \notin StoredProjects

\* the stored reports of a project, their times and scores as the tools
\* read them
ReportsOf(project_id) ==
    SelectSeq(Metadatas(chroma.reports), LAMBDA m :
        "project_id" \in DOMAIN m /\ m.project_id = project_id)

TimeOf(report) == DictGet(report, "timestamp", NoTimestamp)

ScoreOf(report) == DictGet(report, "overall_score", 0)

\* the reports with fewer than n newer reports of the same project
MostRecent(reports, n) ==
    { i \in 1..Len(reports) :
        Cardinality({ j \in 1..Len(reports) :
                        TimeOf(reports[j]) > TimeOf(reports[i]) }) < n }

\* C16: AnalyzeRiskTrendsTool tells the trend from the scores of the oldest
\* and the newest of the (at most ten) most recent reports of the project
\* only: "increasing" when the newest is more than 5 above the oldest,
\* "decreasing" when it is more than 5 below, "stable" otherwise, with one
\* call of the LLM; with one report it answers "insufficient_data" and
\* does not call the LLM; with no report it answers "No historical data
\* available".
C16_TrendFromOldestAndNewest ==
    (ret.op = "AnalyzeRiskTrendsTool" /\ ~ret.raised) =>
        LET mine  == ReportsOf(ret.args[1])
            used  == MostRecent(mine, TrendLimit)
            trend == ret.value.trend
        IN  /\ mine = <<>> => trend = "No historical data available"
            /\ \/ trend = "No historical data available" /\ ret.llm = <<>>
               \/ /\ Len(mine) = 1
                  /\ trend = "insufficient_data"
                  /\ ret.llm = <<>>
                  /\ ret.value.analysis
                        = "Not enough historical data to determine a trend."
               \/ /\ Len(mine) >= 2
                  /\ Len(ret.llm) = 1
                  /\ \E o, n \in used :
                        /\ \A i \in used : TimeOf(mine[o]) <= TimeOf(mine[i])
                        /\ \A i \in used : TimeOf(mine[i]) <= TimeOf(mine[n])
                        /\ LET d == ScoreOf(mine[n]) - ScoreOf(mine[o])
                           IN  trend = IF d > 5 THEN "increasing"
                                       ELSE IF d < 0 - 5 THEN "decreasing"
                                       ELSE "stable"

\* the tool has answered "stable" for three reports whose newest is exactly
\* 5 above the oldest while the one between them is more than 5 below it
C16_Witness ==
    /\ ret.op = "AnalyzeRiskTrendsTool"
    /\ ~ret.raised
    /\ ret.value.trend = "stable"
    /\ Len(ReportsOf(ret.args[1])) = 3
    /\ \E o, m, n \in 1..3 :
        LET mine == ReportsOf(ret.args[1])
        IN  /\ TimeOf(mine[o]) < TimeOf(mine[m])
            /\ TimeOf(mine[m]) < TimeOf(mine[n])
            /\ ScoreOf(mine[n]) - ScoreOf(mine[o]) = 5
            /\ ScoreOf(mine[o]) - ScoreOf(mine[m]) > 5

\* the tool has answered for a project with more than ten reports
C16_ManyReports ==
    /\ ret.op = "AnalyzeRiskTrendsTool"
    /\ ~ret.raised
    /\ ret.value.trend = "stable"
    /\ Len(ReportsOf(ret.args[1])) > 10

EntriesIn(coll, id) == SelectSeq(coll, LAMBDA e : e.id = id)

\* this step is a call of AddRiskTool (a call leaves the clock as it is)
AddRiskStep ==
    calls' = calls + 1 /\ clock' = clock /\ ret'.op = "AddRiskTool"

RejectedByAddRisk(value) ==
    /\ "error" \in DOMAIN value
    /\ value.error \notin
            {"Failed to add risk: " \o m : m \in DatabaseFailures}

\* the risk of the input is stored in the collection under id: the given
\* fields as they were given, id and timestamp filled in when absent
StoredAsGiven(before, after, given, id, now) ==
    /\ Len(EntriesIn(after, id)) = 1
    /\ LET metadata == EntriesIn(after, id)[1].metadata
       IN  /\ DOMAIN metadata = DOMAIN given \cup {"id", "timestamp"}
           /\ \A k \in DOMAIN given : metadata[k] = given[k]
           /\ metadata.id = id
           /\ "timestamp" \notin DOMAIN given => metadata.timestamp = now
    /\ Len(after) = Len(before) + (IF EntriesIn(before, id) = <<>> THEN 1 ELSE 0)
    /\ \A i \in 1..Len(before) :
            before[i].id # id => \E j \in 1..Len(after) : after[j] = before[i]

\* the required fields that d lacks, by their place in the order
\* project_id, name, category, probability, impact
Lacking(d) ==
    { i \in 1..5 :
        <<"project_id", "name", "category", "probability", "impact">>[i]
            \notin DOMAIN d }

FirstLacking(d) ==
    <<"project_id", "name", "category", "probability", "impact">>[
        CHOOSE i \in Lacking(d) : \A j \in Lacking(d) : i <= j]

\* C18 as stated: whenever the input is JSON that lacks one of the five
\* fields, AddRiskTool answers with the first missing field.
C18_EveryJsonLackingAFieldIsNamed ==
    [][(AddRiskStep /\ json_loads(ret'.args[1]).ok
            /\ Lacking(json_loads(ret'.args[1]).value) # {})
        => ret'.value
            = [error |-> "Missing required field: "
                \o FirstLacking(json_loads(ret'.args[1]).value)]]_vars

\* C18: AddRiskTool never raises; it rejects without storing anything:
\* invalid JSON yields "Invalid JSON format for risk data", a JSON
\* object lacking one of project_id, name, category, probability, impact
\* yields the error naming the first missing one, and JSON that is not an
\* object yields "Failed to add risk: ..." with the AttributeError's text.
\* Otherwise it keeps the given id and timestamp, fills them in when
\* absent, stores the risk once and returns the stored id as risk_id,
\* unless the database fails, which leaves the store as it was.
C18_AddRiskRejectsOrStoresOnce ==
    [][AddRiskStep =>
        LET parsed == json_loads(ret'.args[1])
            value  == ret'.value
        IN  /\ ~ret'.raised
            /\ IF ~parsed.ok
               THEN value = [error |-> "Invalid JSON format for risk data"]
               ELSE IF parsed.kind # "dict"
               THEN value = [error |-> "Failed to add risk: " \o NoGetOnList]
               ELSE IF Lacking(parsed.value) # {}
               THEN value = [error |-> "Missing required field: "
                                \o FirstLacking(parsed.value)]
               ELSE \/ /\ "error" \in DOMAIN value
                       /\ ~RejectedByAddRisk(value)
                    \/ /\ value.success
                       /\ "id" \in DOMAIN parsed.value
                            => value.risk_id = parsed.value.id
                       /\ StoredAsGiven(chroma.risks, chroma'.risks,
                                        parsed.value, value.risk_id, clock)
                       /\ \A name \in DOMAIN chroma \ {"risks"} :
                            chroma'[name] = chroma[name]
            /\ "error" \in DOMAIN value => chroma' = chroma]_vars

\* AddRiskTool has stored a risk that came without id and timestamp, and
\* one that came with both
C18_Witness ==
    /\ ret.op = "AddRiskTool"
    /\ ret.args[1] = TextRiskNew
    /\ "risk_id" \in DOMAIN ret.value
    /\ EntriesOf("risks", ret.value.risk_id) # <<>>
    /\ EntriesOf("risks", ret.value.risk_id)[1].metadata.timestamp = clock
    /\ EntriesOf("risks", "r7001") # <<>>
    /\ EntriesOf("risks", "r7001")[1].metadata.timestamp = 5

\* this step is a call of GenerateRiskReportTool
ReportStep ==
    calls' = calls + 1 /\ clock' = clock /\ ret'.op = "GenerateRiskReportTool"

RisksOf(project_id) ==
    SelectSeq(Metadatas(chroma.risks), LAMBDA m :
        "project_id" \in DOMAIN m /\ m.project_id = project_id)

\* the collection after differs from the one before by the entry id only
OnlyEntryChanged(before, after, id) ==
    /\ Len(EntriesIn(after, id)) = 1
    /\ Len(after) = Len(before) + (IF EntriesIn(before, id) = <<>> THEN 1 ELSE 0)
    /\ \A i \in 1..Len(before) :
            before[i].id # id => \E j \in 1..Len(after) : after[j] = before[i]

\* C20: GenerateRiskReportTool for a project that is not stored returns
\* the error dict, asks the LLM nothing and stores no report; for a
\* stored project a returned report has overall_score =
\* calculate_risk_score of the risks the project has in the store,
\* risk_level = get_risk_level(overall_score), risks_count = their number,
\* and exactly one report, the returned one, is stored under report_id.
C20_ReportOfCurrentRisksStoredOnce ==
    [][ReportStep =>
        LET project_id == ret'.args[1]
            value      == ret'.value
            rs         == RisksOf(project_id)
        IN  /\ EntriesIn(chroma.projects, project_id) = <<>> =>
                /\ ~ret'.raised =>
                      value = [error |-> "Project with ID " \o project_id
                                             \o " not found"]
                /\ ret'.llm = <<>>
                /\ chroma' = chroma
            /\ (ret'.raised \/ "error" \in DOMAIN value) => chroma' = chroma
            /\ (~ret'.raised /\ "error" \notin DOMAIN value) =>
                /\ EntriesIn(chroma.projects, project_id) # <<>>
                /\ value.risks_count = Len(rs)
                /\ value.risk_level = get_risk_level(value.overall_score)
                /\ value.overall_score = calculate_risk_score(rs)
                /\ Len(ret'.llm) = 1
                /\ OnlyEntryChanged(chroma.reports, chroma'.reports,
                                    value.report_id)
                /\ EntriesIn(chroma'.reports, value.report_id)[1].metadata
                      = [k \in DOMAIN value \ {"report_id"} |-> value[k]]
                /\ \A name \in DOMAIN chroma \ {"reports"} :
                      chroma'[name] = chroma[name]]_vars

\* a report of p1001 has been generated after a risk was added to the
\* three sample risks of the project, and it is stored
C20_Witness ==
    /\ ret.op = "GenerateRiskReportTool"
    /\ ~ret.raised
    /\ "report_id" \in DOMAIN ret.value
    /\ ret.value.risks_count = 4
    /\ Len(EntriesOf("reports", ret.value.report_id)) = 1

\* the stored reports of a project in the backend of this run
BackendReportsOf(project_id) ==
    SelectSeq(Metadatas(IF use_pinecone THEN pinecone.reports
                        ELSE chroma.reports), LAMBDA m :
        "project_id" \in DOMAIN m /\ m.project_id = project_id)

\* C17: with either backend get_project_reports(project_id, limit) returns
\* only reports of that project, at most limit of them, the newest first,
\* and no stored report of the project that is left out is newer than a
\* returned one.
C17_TheLimitMostRecentReports ==
    (ret.op = "get_project_reports" /\ ~ret.raised) =>
        LET got  == ret.value
            mine == BackendReportsOf(ret.args[1])
        IN  /\ Len(got) <= ret.args[2]
            /\ \A i \in 1..Len(got) :
                    \E j \in 1..Len(mine) : mine[j] = got[i]
            /\ \A i \in 1..Len(got) - 1 :
                    TimeOf(got[i]) >= TimeOf(got[i + 1])
            /\ \A j \in 1..Len(mine) :
                    (\A i \in 1..Len(got) : got[i] # mine[j])
                        => \A i \in 1..Len(got) :
                               TimeOf(got[i]) >= TimeOf(mine[j])

\* get_project_reports has answered with a report while a newer report of
\* the project is stored (ChromaDB: the answer is the newest one)
C17_ChromaWitness ==
    /\ ~use_pinecone
    /\ ret.op = "get_project_reports"
    /\ ret.args[2] = 1
    /\ Len(ret.value) = 1
    /\ Len(BackendReportsOf(ret.args[1])) = 3
    /\ TimeOf(BackendReportsOf(ret.args[1])[1]) < TimeOf(ret.value[1])

\* C19: when Pinecone is configured and its initialization has failed, so
\* that vector_db is the dictionary of the ChromaDB collections, the store
\* functions store into the ChromaDB collections: a call raises for a
\* failure of ChromaDB only, and otherwise the entry is in the collection
\* under the returned id.
C19_FallbackStoresInChromaDB ==
    [][(calls' = calls + 1 /\ clock' = clock /\ use_pinecone
            /\ vector_db' = "chromadb"
            /\ ret'.op \in DOMAIN StoreOps)
        => IF ret'.raised THEN ret'.value \in DatabaseFailures
           ELSE EntriesIn(chroma'[StoreOps[ret'.op]], ret'.value)
                    # <<>>]_vars

\* a store function has been called after the fallback to ChromaDB
C19_FallbackReached ==
    /\ use_pinecone
    /\ vector_db = "chromadb"
    /\ ret.op = "store_project_data"
    /\ ret.raised
    /\ ret.value = "'dict' object has no attribute 'upsert'"

\* this step is a call of op (a call leaves the clock as it is)
CallStep(op) == calls' = calls + 1 /\ clock' = clock /\ ret'.op = op

\* C21: get_recent_market_data(hours, data_type) returns exactly the stored
\* market entries whose timestamp is not older than now minus hours and,
\* when data_type is given, whose type is data_type; an entry without
\* timestamp is never returned; the store is not modified. (A call that
\* cannot read the database returns the empty list.)
C21_RecentMarketDataOfType ==
    [][(CallStep("get_recent_market_data") /\ ~ret'.raised) =>
        LET hours     == ret'.args[1]
            data_type == ret'.args[2]
            stored    == Metadatas(chroma.market_data)
            wanted    == { i \in 1..Len(stored) :
                            /\ "timestamp" \in DOMAIN stored[i]
                            /\ clock - stored[i].timestamp
                                   <= hours * 3600
                            /\ data_type # "" =>
                                   /\ "type" \in DOMAIN stored[i]
                                   /\ stored[i].type = data_type }
            got       == ret'.value
        IN  /\ chroma' = chroma
            /\ \/ got = <<>>
               \/ /\ Len(got) = Cardinality(wanted)
                  /\ \A i \in wanted :
                        \E j \in 1..Len(got) : got[j] = stored[i]
            /\ \A j \in 1..Len(got) : "timestamp" \in DOMAIN got[j]]_vars

\* get_recent_market_data has returned the entry that is exactly 24 hours
\* old while an entry a second older and one without timestamp are stored
C21_Witness ==
    /\ ret.op = "get_recent_market_data"
    /\ ~ret.raised
    /\ Len(ret.value) = 1
    /\ clock - ret.value[1].timestamp = 24 * 3600
    /\ \E i \in 1..Len(chroma.market_data) :
            "timestamp" \notin DOMAIN chroma.market_data[i].metadata
    /\ \E i \in 1..Len(chroma.market_data) :
            /\ "timestamp" \in DOMAIN chroma.market_data[i].metadata
            /\ clock - chroma.market_data[i].metadata.timestamp > 24 * 3600

(***************************************************************************)
(* The cache under two threads                                             *)
(***************************************************************************)
\* the calls of set_cached_data(key, ...) that have returned, oldest first
ReturnedSets(key) == SelectSeq(cache_log, LAMBDA e : e.key = key)

\* thread t has written the value of its set_cached_data(key, ...) and not
\* yet the time
BetweenTheSteps(t, key) ==
    threads[t].pc = "last_update" /\ threads[t].key = key

\* the update time of a key is the one written by the set_cached_data that
\* returned last, whatever value the cache holds
UpdateTimeOfLastReturned ==
    \A key \in CacheKeys :
        IF ReturnedSets(key) = <<>> THEN key \notin DOMAIN cache.last_update
        ELSE /\ key \in DOMAIN cache.last_update
             /\ cache.last_update[key]
                    = ReturnedSets(key)[Len(ReturnedSets(key))].time

\* C22: set_cached_data writes the value and the update time in two steps:
\* a step that changes a value leaves every update time as it was and the
\* call unfinished, a step that changes an update time leaves every value
\* as it was, and the update time of a key is always that
\* of the set_cached_data that returned last; a get_cached_data that runs
\* its checks while the value of an unfinished set_cached_data is in the
\* cache returns None when the key has no update time yet or the previous
\* update time is older than ttl, and otherwise goes on to return the
\* value the cache holds
C22_SetWritesValueThenTime ==
    [][/\ UpdateTimeOfLastReturned
       /\ cache'.data # cache.data
            => /\ cache'.last_update = cache.last_update
               /\ cache_log' = cache_log
               /\ \E t \in Threads :
                    /\ threads[t] = NoCall
                    /\ threads'[t].pc = "last_update"
                    /\ cache'.data[threads'[t].key] = threads'[t].data
       /\ cache'.last_update # cache.last_update
            => cache'.data = cache.data
       /\ \A g \in Threads, u \in Threads, key \in CacheKeys, ttl \in TimeToLive :
            (/\ BetweenTheSteps(u, key)
             /\ cache.data[key] = threads[u].data
             /\ threads[g] = NoCall
             /\ calls' = calls + 1 /\ clock' = clock /\ cache' = cache
             /\ \/ threads'[g] = [pc |-> "return", key |-> key, ttl |-> ttl]
                \/ (/\ threads' = threads /\ ret' # ret
                    /\ ret'.op = "get_cached_data"
                    /\ ret'.args = <<key, ttl>>))
            => IF key \notin DOMAIN cache.last_update
               THEN threads' = threads /\ ret'.value = PyNone
               ELSE IF clock - cache.last_update[key] > ttl
               THEN threads' = threads /\ ret'.value = PyNone
               ELSE threads'[g].pc = "return"
       /\ \A g \in Threads :
            (threads[g].pc = "return" /\ threads'[g] = NoCall)
            => /\ ret'.op = "get_cached_data"
               /\ ret'.value = cache.data[threads[g].key]]_vars

\* both calls have returned, and the cache holds the value of the call that
\* returned first with the update time of the call that returned last
C22_ValueOfOneCallTimeOfTheOther ==
    /\ \A t \in Threads : threads[t] = NoCall
    /\ \E key \in CacheKeys :
         /\ Len(ReturnedSets(key)) = 2
         /\ cache.data[key] = ReturnedSets(key)[1].data
         /\ cache.data[key] # ReturnedSets(key)[2].data
         /\ cache.last_update[key] = ReturnedSets(key)[2].time
         /\ cache.last_update[key] # ReturnedSets(key)[1].time

\* a get_cached_data has returned the value of a set_cached_data that has
\* not written its update time yet, found fresh by the update time of the
\* call before
C22_GetSawNewValueWithOldTime ==
    /\ ret.op = "get_cached_data"
    /\ ret.value # PyNone
    /\ \E u \in Threads :
         /\ BetweenTheSteps(u, ret.args[1])
         /\ ret.value = threads[u].data
         /\ ReturnedSets(ret.args[1]) # <<>>
         /\ \A i \in 1..Len(ReturnedSets(ret.args[1])) :
              ReturnedSets(ret.args[1])[i].data # ret.value

\* a get_cached_data has taken a key for absent whose value is in the cache
C22_GetSawNoUpdateTime ==
    /\ ret.op = "get_cached_data"
    /\ ret.value = PyNone
    /\ ret.args[1] \in DOMAIN cache.data
    /\ ret.args[1] \notin DOMAIN cache.last_update

(***************************************************************************)
(* The keys of the cache in a single thread                                *)
(***************************************************************************)
\* C23: in a single thread the two dicts of the cache have the same keys
\* before and after every step, no step removes a key, get_cached_data
\* leaves the cache as it is (also when it reports an expired entry as
\* None), and set_cached_data(key, v) stores v and the time under key and
\* leaves the entries of all other keys unchanged
C23_SameKeysOnlyGrowing ==
    [][/\ DOMAIN cache.data = DOMAIN cache.last_update
       /\ DOMAIN cache'.data = DOMAIN cache'.last_update
       /\ DOMAIN cache.data \subseteq DOMAIN cache'.data
       /\ CallStep("get_cached_data") => cache' = cache
       /\ CallStep("set_cached_data")
            => /\ DOMAIN cache'.data = DOMAIN cache.data \cup {ret'.args[1]}
               /\ cache'.data[ret'.args[1]] = ret'.args[2]
               /\ cache'.last_update[ret'.args[1]] = clock
               /\ \A k \in DOMAIN cache.data \ {ret'.args[1]} :
                    /\ cache'.data[k] = cache.data[k]
                    /\ cache'.last_update[k] = cache.last_update[k]]_vars

\* two keys are stored, and get_cached_data has reported one of them as None
\* because it has expired
C23_Witness ==
    /\ ret.op = "get_cached_data"
    /\ ret.value = PyNone
    /\ ret.args[1] \in DOMAIN cache.data
    /\ clock - cache.last_update[ret.args[1]] > ret.args[2]
    /\ Cardinality(DOMAIN cache.data) = 2

(***************************************************************************)
(* The reports of successive GenerateRiskReportTool calls                  *)
(***************************************************************************)
ReportsIn(store, project_id) ==
    SelectSeq(Metadatas(store.reports), LAMBDA m :
        "project_id" \in DOMAIN m /\ m.project_id = project_id)

\* C24: every successful GenerateRiskReportTool call adds a distinct
\* report: after the call the project has one stored report more than
\* before it, also when the call before it was made in the same second
C24_EverySuccessfulCallAddsAReport ==
    [][(/\ CallStep("GenerateRiskReportTool")
        /\ ~ret'.raised
        /\ "report_id" \in DOMAIN ret'.value)
       => Len(ReportsIn(chroma', ret'.args[1]))
              = Len(ReportsIn(chroma, ret'.args[1])) + 1]_vars

\* two GenerateRiskReportTool calls for a project have succeeded within one
\* second, and the project has one stored report
C24_TwoCallsOneReport ==
    /\ calls = 2
    /\ ret.op = "GenerateRiskReportTool"
    /\ ~ret.raised
    /\ "report_id" \in DOMAIN ret.value
    /\ Len(ReportsOf(ret.args[1])) = 1
    /\ Len(ret.llm) = 1

(***************************************************************************)
(* UpdateRiskTool                                                          *)
(***************************************************************************)
\* the input of UpdateRiskTool is a JSON object with an id
GivesId(text) ==
    /\ text \in DOMAIN JsonValues
    /\ JsonValues[text].kind = "dict"
    /\ "id" \in DOMAIN JsonValues[text].value

C25_Created ==
    /\ calls = 1
    /\ ret.op = "UpdateRiskTool"
    /\ "success" \in DOMAIN ret.value
    /\ ret.value.risk_id = "r7001"
    /\ Len(EntriesOf("risks", "r7001")) = 1

(***************************************************************************)
(* The chat turn when the crew is missing or the assessment raises         *)
(***************************************************************************)
FallbackText ==
    "I'm having trouble connecting to the risk analysis system. Please try again later."

ErrorTexts ==
    {"I encountered an error while analyzing your request: " \o k.error :
        k \in {k \in KickoffOutcomes : "error" \in DOMAIN k}}

ReportTexts == {k.text : k \in {k \in KickoffOutcomes : "text" \in DOMAIN k}}

\* the roles are user, assistant, user, assistant, ...: every user message
\* has its reply
Alternates(history) ==
    /\ Len(history) % 2 = 0
    /\ \A i \in 1..Len(history) :
          history[i].role = IF i % 2 = 1 THEN "user" ELSE "assistant"

\* C26: every chat submission completes its turn: the user message and then
\* an assistant message are appended to the history the session had and
\* the history is saved; without a crew the assistant message is the fixed
\* fallback text, with a crew it is the report or, when the assessment
\* raises, the error text; so the history of every session and the saved
\* history alternate user, assistant
C26_EveryTurnIsAnswered ==
    [][/\ \A s \in Sessions :
            Submitted(s) =>
                LET history == session_state'[s].chat_history
                    reply   == history[Len(history)]
                IN  /\ ExtendedByOneTurn(session_state[s].chat_history, history)
                    /\ chat_file' = history
                    /\ reply.content \in
                          IF session_state[s].crew = PyNone
                          THEN {FallbackText}
                          ELSE ReportTexts \cup ErrorTexts
       /\ Alternates(chat_file')
       /\ \A s \in Sessions :
            session_state'[s] # NoSession
                => Alternates(session_state'[s].chat_history)]_vars

\* the saved history holds a turn answered with the fallback text by a
\* session without crew, and after it a turn answered with the error text
C26_Witness ==
    /\ Len(chat_file) = 4
    /\ chat_file[2].content = FallbackText
    /\ chat_file[4].content \in ErrorTexts
    /\ Alternates(chat_file)

(***************************************************************************)
(* GenerateMitigationStrategiesTool                                        *)
(***************************************************************************)
InvalidInput ==
    "Invalid input. Provide either a risk_id or a project_id with all_risks=true"

\* the risk is stored with the k-th strategy of the LLM as its mitigation
\* and is otherwise as it was
Mitigated(risk, k) ==
    /\ Len(ret'.llm) >= k
    /\ "text" \in DOMAIN ret'.llm[k]
    /\ Len(EntriesIn(chroma'.risks, risk.id)) = 1
    /\ EntriesIn(chroma'.risks, risk.id)[1].metadata
          = [f \in DOMAIN risk \cup {"mitigation"} |->
                IF f = "mitigation" THEN strip(ret'.llm[k].text) ELSE risk[f]]

Untouched(risk) ==
    /\ Len(EntriesIn(chroma'.risks, risk.id)) = 1
    /\ EntriesIn(chroma'.risks, risk.id)[1].metadata = risk

\* C27: GenerateMitigationStrategiesTool never raises and changes nothing
\* but risks. With a risk_id (whatever else is given) it answers for that
\* risk only: an error with the store unchanged, without a question to the
\* LLM when no stored risk has the id ("not found", unless the database
\* could not be initialized), or the strategy, with which that risk alone
\* is stored. With project_id and all_risks it answers an error with the
\* store unchanged when the project has no risks ("No risks found");
\* otherwise on success updated_risks_count is the number of the project's
\* risks and each is stored with its strategy, and on an error the first
\* k-1 risks are stored with their strategies and the others are as they
\* were, k being the number of questions the LLM was asked (the k-th
\* question or the k-th store has failed). Any other JSON object gets the
\* "Invalid input" error.
C27_MitigationBranches ==
    [][CallStep("GenerateMitigationStrategiesTool") =>
        LET text   == ret'.args[1]
            given  == JsonValues[text].value
            value  == ret'.value
            all    == Metadatas(chroma.risks)
            others(ids) == \A i \in 1..Len(all) :
                              all[i].id \notin ids => Untouched(all[i])
        IN  /\ ~ret'.raised
            /\ \A name \in DOMAIN chroma \ {"risks"} :
                  chroma'[name] = chroma[name]
            /\ Len(chroma'.risks) = Len(chroma.risks)
            /\ (text \notin DOMAIN JsonValues \/ JsonValues[text].kind # "dict")
                  => "error" \in DOMAIN value /\ chroma' = chroma
            /\ (text \in DOMAIN JsonValues /\ JsonValues[text].kind = "dict") =>
                IF "risk_id" \in DOMAIN given
                THEN LET target == SelectSeq(all, LAMBDA r : r.id = given.risk_id)
                     IN  IF "error" \in DOMAIN value
                         THEN /\ chroma' = chroma
                              /\ value.error # InvalidInput
                              /\ target = <<>> => ret'.llm = <<>>
                              /\ (target = <<>> /\ vector_db # "None") =>
                                    value.error = "Risk with ID "
                                        \o given.risk_id \o " not found"
                         ELSE /\ target # <<>>
                              /\ Len(ret'.llm) = 1
                              /\ value = [risk_id |-> given.risk_id,
                                          mitigation_strategy |->
                                              strip(ret'.llm[1].text)]
                              /\ Mitigated(target[1], 1)
                              /\ others({given.risk_id})
                ELSE IF /\ "project_id" \in DOMAIN given
                        /\ "all_risks" \in DOMAIN given
                        /\ given.all_risks
                THEN LET rs == RisksOf(given.project_id)
                         n  == Len(rs)
                     IN  IF "error" \in DOMAIN value
                         THEN /\ value.error # InvalidInput
                              /\ n = 0 => chroma' = chroma /\ ret'.llm = <<>>
                              /\ (n = 0 /\ vector_db # "None") =>
                                    value.error = "No risks found for project "
                                        \o given.project_id
                              /\ n > 0 =>
                                    \E k \in 1..n :
                                        /\ ret'.llm # <<>> => k = Len(ret'.llm)
                                        /\ \A i \in 1..(k - 1) : Mitigated(rs[i], i)
                                        /\ \A i \in k..n : Untouched(rs[i])
                                        /\ others({rs[i].id : i \in 1..n})
                         ELSE /\ n > 0
                              /\ value.project_id = given.project_id
                              /\ value.updated_risks_count = n
                              /\ Len(value.updated_risks) = n
                              /\ Len(ret'.llm) = n
                              /\ \A i \in 1..n :
                                    /\ Mitigated(rs[i], i)
                                    /\ value.updated_risks[i].risk_id = rs[i].id
                                    /\ value.updated_risks[i].mitigation_strategy
                                          = strip(ret'.llm[i].text)
                              /\ others({rs[i].id : i \in 1..n})
                ELSE value = [error |-> InvalidInput] /\ chroma' = chroma]_vars

\* the all-risks branch has returned an error after the second question to
\* the LLM failed: the first risk of p1001 has its new mitigation, the two
\* others have the old ones
C27_Witness ==
    /\ calls = 1
    /\ ret.op = "GenerateMitigationStrategiesTool"
    /\ ret.args = <<TextMitigateAll>>
    /\ "error" \in DOMAIN ret.value
    /\ Len(ret.llm) = 2
    /\ "error" \in DOMAIN ret.llm[2]
    /\ RisksOf("p1001")[1].mitigation = strip(ret.llm[1].text)
    /\ RisksOf("p1001")[2].mitigation
          = "Implement strict cost controls and weekly budget reviews."

\* the all-risks branch has succeeded for the three risks of p1001
C27_AllUpdated ==
    /\ ret.op = "GenerateMitigationStrategiesTool"
    /\ "updated_risks_count" \in DOMAIN ret.value
    /\ ret.value.updated_risks_count = 3

\* a risk_id together with project_id and all_risks: the risk r2004 of p1002
\* alone has been updated
C27_RiskIdFirst ==
    /\ calls = 1
    /\ ret.op = "GenerateMitigationStrategiesTool"
    /\ ret.args = <<TextMitigateBoth>>
    /\ Len(ret.llm) = 1
    /\ "text" \in DOMAIN ret.llm[1]
    /\ ret.value = [risk_id |-> "r2004",
                    mitigation_strategy |-> strip(ret.llm[1].text)]

(***************************************************************************)
(* create_sample_data run again                                            *)
(***************************************************************************)
IdsOf(items) == {items[i].id : i \in 1..Len(items)}

\* the collection `after` holds each of the items once, as given, and the
\* entries of `before` with other ids as they were, and nothing else
HoldsSamples(before, after, items) ==
    /\ \A i \in 1..Len(items) :
          /\ Len(EntriesIn(after, items[i].id)) = 1
          /\ EntriesIn(after, items[i].id)[1].metadata = items[i]
    /\ \A j \in 1..Len(before) :
          before[j].id \notin IdsOf(items)
              => \E k \in 1..Len(after) : after[k] = before[j]
    /\ Len(after) = Len(items)
          + Cardinality({j \in 1..Len(before) : before[j].id \notin IdsOf(items)})

\* C28: every call of create_sample_data that returns, the first and any
\* later one, returns the counts 3, 8 and 4 and leaves the projects
\* p1001..p1003, the risks r2001..r2008 and the market entries m3001..m3004
\* stored once each, as the sample gives them (the market entries with the
\* time of the call), next to the entries with other ids, which it leaves
\* alone; every sample risk belongs to a sample project
C28_SampleDataStoredOnce ==
    [][(/\ calls' = calls + 1 /\ clock' = clock
        /\ ret'.op \in {"create_sample_data", "CreateSampleDataTool"}
        /\ ~ret'.raised)
       => /\ ret'.value = [projects |-> 3, risks |-> 8, market_data |-> 4]
          /\ IdsOf(SampleProjects) = {"p1001", "p1002", "p1003"}
          /\ IdsOf(SampleRisks) = {"r2001", "r2002", "r2003", "r2004",
                                   "r2005", "r2006", "r2007", "r2008"}
          /\ IdsOf(SampleMarketData([clock |-> clock]))
                = {"m3001", "m3002", "m3003", "m3004"}
          /\ HoldsSamples(chroma.projects, chroma'.projects, SampleProjects)
          /\ HoldsSamples(chroma.risks, chroma'.risks, SampleRisks)
          /\ HoldsSamples(chroma.market_data, chroma'.market_data,
                          SampleMarketData([clock |-> clock]))
          /\ chroma'.reports = chroma.reports
          /\ \A i \in 1..Len(SampleRisks) :
                SampleRisks[i].project_id \in IdsOf(SampleProjects)]_vars

\* create_sample_data has run a second time, later than the first: the
\* store holds the 3 projects, 8 risks and 4 market entries, the market
\* entries with the time of the second run
C28_Witness ==
    /\ calls = 2
    /\ clock > 0
    /\ ret.op = "create_sample_data"
    /\ ~ret.raised
    /\ Len(chroma.projects) = 3
    /\ Len(chroma.risks) = 8
    /\ Len(chroma.market_data) = 4
    /\ \A i \in 1..4 : chroma.market_data[i].metadata.timestamp = clock

\* create_sample_data has run twice on an empty store
C28_RunTwice ==
    /\ calls = 2
    /\ clock = 0
    /\ ret.op = "create_sample_data"
    /\ ~ret.raised
    /\ Len(chroma.projects) = 3
    /\ Len(chroma.risks) = 8
    /\ Len(chroma.market_data) = 4

====
